---- MODULE Spec2Model ----
(***************************************************************************)
(* A model of the coordination core of the multi-agent scaffold:           *)
(*   - StateManager (app/agents/state_manager.py) and the coordinator      *)
(*     tools that use it (app/agents/coordinator_agent.py),                *)
(*   - ErrorRecoveryHandler and retry_with_backoff                         *)
(*     (app/utils/error_handling.py),                                      *)
(*   - RateLimiter and SlidingWindowRateLimiter (app/utils/validation.py). *)
(* Threads run the methods statement by statement; a "with lock:" block    *)
(* is entered by a step guarded by the lock and left by the step that      *)
(* executes its last statement.  Time is a discrete clock, now, in ticks.  *)
(***************************************************************************)
EXTENDS Integers, Sequences, FiniteSets, TLC

\* ------------------------------------------------------------------ bounds
NumThreads == 2
MaxCalls == 3
MaxTime == 6
MaxOps == 3
MaxThreshold == 2
Timeout == 2
MaxBurst == 2
MaxRate == 2
MaxTokens == 2
MaxAttempts == 3

Threads == 1..NumThreads
AgentNames == {"research_agent", "code_agent"}
Coordinator == "coordinator"
None == "None"

VARIABLES
    \* StateManager
    heap,            \* the AgentState objects ever allocated, by reference
    states,          \* self._states: agent name -> reference into heap
    messages,        \* self._messages: agent name -> list of Message
    global_context,  \* self._global_context
    held,            \* self._lock (RLock): how often each thread holds it
    \* threads
    pc,              \* each thread's position
    call,            \* each thread's current call and its arguments
    loc,             \* each thread's local variables
    ncalls,          \* calls each thread has started
    \* CoordinatorAgent
    available_agents,  \* self.available_agents (the names)
    \* history of the run (not program state)
    added,           \* agent name -> values whose add_result has returned
    sentLog,         \* messages whose send_message has returned
    returnedLog,     \* messages returned by get_messages(clear=True) calls
    seen,            \* agent name -> every (status, current_task, results_count) it had
    report,          \* what the last get_agent_status call returned
    \* the clock: time.time(), in ticks of half a second
    now,
    \* ErrorRecoveryHandler
    failure_counts,             \* self.failure_counts: operation -> int
    circuit_open_until,         \* self.circuit_open_until: operation -> time
    error_history,              \* self.error_history
    circuit_breaker_threshold,  \* self.circuit_breaker_threshold
    circuit_breaker_timeout,    \* self.circuit_breaker_timeout, in ticks
    \* history of the handler's run (not program state)
    nops,            \* handler calls made so far
    last,            \* the last handler call: its arguments and what it returned
    failsSince,      \* operation -> failures recorded since its last reset
    streak,          \* operation -> exhausted recover calls since its last reset
    reachedAt,       \* operation -> when its count reached the threshold, or -1
    failAt,          \* operation -> when its last failure was recorded, or -1
    recorded,        \* operation -> record_failure calls that have returned
    \* rate_limit's limiter: a RateLimiter or a SlidingWindowRateLimiter
    limiter,
    \* history of the limiter's run (not program state)
    returned,        \* acquire calls that have returned
    raised,          \* acquire calls that have raised RateLimitError
    acqLog,          \* the RateLimiter.acquire calls so far, in order
    \* history of the tool and StateManager calls made one after the other
    tool,            \* the last such call: its arguments and what it returned
    ntools,          \* how many were made
    pending,         \* agent name -> messages sent to it and not yet cleared
    \* a call of a decorated or wrapped function (retry_with_backoff,
    \* safe_execute, validated_tool) or of calculate_backoff_delay
    wrapper          \* its arguments, its position and what it did so far

smVars == <<heap, states, messages, global_context, held, available_agents>>
thVars == <<pc, call, loc, ncalls>>
histVars == <<added, sentLog, returnedLog, seen, report>>
ehVars == <<failure_counts, circuit_open_until, error_history,
            circuit_breaker_threshold, circuit_breaker_timeout>>
ehHist == <<nops, last, failsSince, streak, reachedAt, failAt, recorded>>
rlVars == <<limiter, returned, raised, acqLog>>
seqVars == <<tool, ntools, pending>>
wrapVars == <<wrapper>>
vars == <<smVars, thVars, histVars, now, ehVars, ehHist, rlVars, seqVars, wrapVars>>

\* what the StateManager's steps, and the handler's calls, leave alone
notSM == <<now, ehVars, ehHist, rlVars, seqVars, wrapVars>>
notEH == <<smVars, thVars, histVars, rlVars, seqVars, wrapVars>>
notRL == <<smVars, histVars, ehVars, ehHist, seqVars, wrapVars>>
notTools == <<held, thVars, histVars, now, ehVars, ehHist, rlVars, wrapVars>>
notWrap == <<smVars, thVars, histVars, now, ehVars, ehHist, seqVars>>

\* ----------------------------------------------------------------- helpers
Put(f, k, v) == [x \in (DOMAIN f) \cup {k} |-> IF x = k THEN v ELSE f[x]]

Count(s, x) == Cardinality({i \in 1..Len(s) : s[i] = x})

Range(s) == {s[i] : i \in 1..Len(s)}

EmptyMap == [x \in {} |-> None]

RECURSIVE SumTo(_, _)
SumTo(f, n) == IF n = 0 THEN 0 ELSE f[n] + SumTo(f, n - 1)

\* calls started so far, by all threads together
TotalCalls == SumTo(ncalls, NumThreads)

\* a thread may start a call: it is between calls and the run is not over
MayCall(t) == pc[t] = "idle" /\ TotalCalls < MaxCalls

\* AgentState(name=agent_name): the dataclass defaults
AgentState(n) ==
    [name |-> n, data |-> EmptyMap, status |-> "idle", current_task |-> None,
     results |-> <<>>]

NoCall == [op |-> "none", agent |-> None, from |-> None, x |-> <<0, 0>>,
           status |-> None, task |-> None, clear |-> FALSE, tokens |-> 0,
           key |-> None]

NoLoc == [state |-> 0, cont |-> "idle", rcont |-> "idle", msgs |-> <<>>,
          status |-> None, task |-> None, count |-> 0, wake |-> 0,
          copy |-> [live |-> FALSE, names |-> <<>>], value |-> None]

\* history: no call has been made one after the other yet
NoTool ==
    [op |-> "none", agent |-> None, result |-> None, status |-> None, task |-> None,
     from |-> None, content |-> None, clear |-> FALSE, names |-> <<>>,
     language |-> None, known |-> TRUE]

Tasks == {"find X", "write Y"}
Senders == {Coordinator, "research_agent"}

\* (status, current_task, len(results)) of an AgentState object
Triple(o) == <<o.status, o.current_task, Len(o.results)>>

\* the triples of the objects self._states names, added to the history
Observe(h, st) ==
    [a \in AgentNames |->
        IF a \in DOMAIN st THEN seen[a] \cup {Triple(h[st[a]])} ELSE seen[a]]

\* ------------------------------------------------------------------- RLock
\* threading.RLock: a thread enters when no other thread holds the lock
CanEnterOpen(t) == TRUE

CanEnter(t) == \A u \in Threads \ {t} : held[u] = 0

Enter(t) == [held EXCEPT ![t] = @ + 1]

Leave(t) == [held EXCEPT ![t] = @ - 1]

\* --------------------------------------------- StateManager.get_agent_state
\* with self._lock: if agent_name not in self._states:
GAS_Check(t) ==
    /\ pc[t] = "gas_check"
    /\ CanEnter(t)
    /\ held' = Enter(t)
    /\ IF call[t].agent \in DOMAIN states
       THEN /\ pc' = [pc EXCEPT ![t] = "gas_ret"]
            /\ loc' = loc
       ELSE /\ pc' = [pc EXCEPT ![t] = "reg_check"]
            /\ loc' = [loc EXCEPT ![t].rcont = "gas_ret"]
    /\ UNCHANGED <<heap, states, messages, global_context, available_agents,
                   call, ncalls, histVars>>
    /\ UNCHANGED notSM

\* register_agent: with self._lock: if agent_name not in self._states:
REG_Check(t) ==
    /\ pc[t] = "reg_check"
    /\ CanEnter(t)
    /\ IF call[t].agent \in DOMAIN states
       THEN /\ pc' = [pc EXCEPT ![t] = loc[t].rcont]
            /\ held' = held
       ELSE /\ pc' = [pc EXCEPT ![t] = "reg_assign"]
            /\ held' = Enter(t)
    /\ UNCHANGED <<heap, states, messages, global_context, available_agents,
                   call, loc, ncalls, histVars>>
    /\ UNCHANGED notSM

\* register_agent: self._states[agent_name] = AgentState(name=agent_name)
REG_Assign(t) ==
    /\ pc[t] = "reg_assign"
    /\ heap' = Append(heap, AgentState(call[t].agent))
    /\ states' = Put(states, call[t].agent, Len(heap) + 1)
    /\ held' = Leave(t)
    /\ pc' = [pc EXCEPT ![t] = loc[t].rcont]
    /\ seen' = Observe(heap', states')
    /\ UNCHANGED <<messages, global_context, available_agents, call, loc, ncalls,
                   added, sentLog, returnedLog, report>>
    /\ UNCHANGED notSM

\* register_agent(a), called on its own
CallRegisterAgent(t, a) ==
    /\ MayCall(t)
    /\ ncalls' = [ncalls EXCEPT ![t] = @ + 1]
    /\ call' = [call EXCEPT ![t] = [NoCall EXCEPT !.op = "register_agent", !.agent = a]]
    /\ loc' = [loc EXCEPT ![t].rcont = "idle"]
    /\ pc' = [pc EXCEPT ![t] = "reg_check"]
    /\ UNCHANGED <<smVars, histVars>>
    /\ UNCHANGED notSM

\* get_agent_state: return self._states[agent_name]
GAS_Return(t) ==
    /\ pc[t] = "gas_ret"
    /\ loc' = [loc EXCEPT ![t].state = states[call[t].agent]]
    /\ held' = Leave(t)
    /\ pc' = [pc EXCEPT ![t] = loc[t].cont]
    /\ UNCHANGED <<heap, states, messages, global_context, available_agents,
                   call, ncalls, histVars>>
    /\ UNCHANGED notSM

GetAgentState(t) == GAS_Check(t) \/ REG_Check(t) \/ REG_Assign(t) \/ GAS_Return(t)

\* -------------------------------------------------- StateManager.add_result
CallAddResult(t, a) ==
    /\ MayCall(t)
    /\ ncalls' = [ncalls EXCEPT ![t] = @ + 1]
    /\ call' = [call EXCEPT ![t] = [NoCall EXCEPT !.op = "add_result", !.agent = a,
                                                  !.x = <<t, ncalls[t] + 1>>]]
    /\ pc' = [pc EXCEPT ![t] = "ar_enter"]
    /\ UNCHANGED <<smVars, loc, histVars>>
    /\ UNCHANGED notSM

\* with self._lock: state = self.get_agent_state(agent_name)
AR_Enter(t) ==
    /\ pc[t] = "ar_enter"
    /\ CanEnter(t)
    /\ held' = Enter(t)
    /\ loc' = [loc EXCEPT ![t].cont = "ar_append"]
    /\ pc' = [pc EXCEPT ![t] = "gas_check"]
    /\ UNCHANGED <<heap, states, messages, global_context, available_agents,
                   call, ncalls, histVars>>
    /\ UNCHANGED notSM

\* state.results.append(result), and the with block ends
AR_Append(t) ==
    /\ pc[t] = "ar_append"
    /\ heap' = [heap EXCEPT ![loc[t].state].results = Append(@, call[t].x)]
    /\ held' = Leave(t)
    /\ pc' = [pc EXCEPT ![t] = "idle"]
    /\ added' = [added EXCEPT ![call[t].agent] = @ \cup {call[t].x}]
    /\ seen' = Observe(heap', states)
    /\ UNCHANGED <<states, messages, global_context, available_agents, call, loc,
                   ncalls, sentLog, returnedLog, report>>
    /\ UNCHANGED notSM

AddResult(t) == AR_Enter(t) \/ AR_Append(t)

\* ------------------------------------------------ StateManager.send_message
CallSendMessage(t, from, to) ==
    /\ MayCall(t)
    /\ ncalls' = [ncalls EXCEPT ![t] = @ + 1]
    /\ call' = [call EXCEPT ![t] = [NoCall EXCEPT !.op = "send_message", !.agent = to,
                                                  !.from = from,
                                                  !.x = <<t, ncalls[t] + 1>>]]
    /\ pc' = [pc EXCEPT ![t] = "sm_enter"]
    /\ UNCHANGED <<smVars, loc, histVars>>
    /\ UNCHANGED notSM

\* with self._lock:
SM_Enter(t) ==
    /\ pc[t] = "sm_enter"
    /\ CanEnter(t)
    /\ held' = Enter(t)
    /\ pc' = [pc EXCEPT ![t] = "sm_append"]
    /\ UNCHANGED <<heap, states, messages, global_context, available_agents,
                   call, loc, ncalls, histVars>>
    /\ UNCHANGED notSM

\* Message(from_agent, to_agent, content); the timestamp field, which no
\* operation reads back except to copy it, is left out
Message(from, to, content) == [from_agent |-> from, to_agent |-> to, content |-> content]

\* self._messages[agent_name] of the defaultdict(list)
Mailbox(a) == IF a \in DOMAIN messages THEN messages[a] ELSE <<>>

\* message = Message(...); self._messages[to_agent].append(message)
SM_Append(t) ==
    /\ pc[t] = "sm_append"
    /\ messages' = Put(messages, call[t].agent,
                       Append(Mailbox(call[t].agent),
                              Message(call[t].from, call[t].agent, call[t].x)))
    /\ held' = Leave(t)
    /\ pc' = [pc EXCEPT ![t] = IF call[t].op = "delegate_task" THEN "us_enter" ELSE "idle"]
    /\ sentLog' = sentLog \cup {[to |-> call[t].agent, content |-> call[t].x]}
    /\ UNCHANGED <<heap, states, global_context, available_agents, call, loc, ncalls,
                   added, returnedLog, seen, report>>
    /\ UNCHANGED notSM

SendMessage(t) == SM_Enter(t) \/ SM_Append(t)

\* ------------------------------------------------ StateManager.get_messages
CallGetMessages(t, a, clear) ==
    /\ MayCall(t)
    /\ ncalls' = [ncalls EXCEPT ![t] = @ + 1]
    /\ call' = [call EXCEPT ![t] = [NoCall EXCEPT !.op = "get_messages", !.agent = a,
                                                  !.clear = clear]]
    /\ pc' = [pc EXCEPT ![t] = "gm_enter"]
    /\ UNCHANGED <<smVars, loc, histVars>>
    /\ UNCHANGED notSM

\* with self._lock:
GM_Enter(t) ==
    /\ pc[t] = "gm_enter"
    /\ CanEnter(t)
    /\ held' = Enter(t)
    /\ pc' = [pc EXCEPT ![t] = "gm_copy"]
    /\ UNCHANGED <<heap, states, messages, global_context, available_agents,
                   call, loc, ncalls, histVars>>
    /\ UNCHANGED notSM

\* {"from": msg.from_agent, "content": msg.content, ...}
MessageDict(msg) == [from |-> msg.from_agent, content |-> msg.content]

\* messages = [{...} for msg in self._messages[agent_name]]; if clear:
GM_Copy(t) ==
    /\ pc[t] = "gm_copy"
    /\ loc' = [loc EXCEPT ![t].msgs =
                  [i \in 1..Len(Mailbox(call[t].agent)) |->
                      MessageDict(Mailbox(call[t].agent)[i])]]
    /\ messages' = Put(messages, call[t].agent, Mailbox(call[t].agent))
    /\ pc' = [pc EXCEPT ![t] = IF call[t].clear THEN "gm_clear" ELSE "gm_ret"]
    /\ UNCHANGED <<heap, states, global_context, held, available_agents, call,
                   ncalls, histVars>>
    /\ UNCHANGED notSM

\* self._messages[agent_name].clear()
GM_Clear(t) ==
    /\ pc[t] = "gm_clear"
    /\ messages' = Put(messages, call[t].agent, <<>>)
    /\ pc' = [pc EXCEPT ![t] = "gm_ret"]
    /\ UNCHANGED <<heap, states, global_context, held, available_agents, call, loc,
                   ncalls, histVars>>
    /\ UNCHANGED notSM

\* return messages
GM_Return(t) ==
    /\ pc[t] = "gm_ret"
    /\ held' = Leave(t)
    /\ pc' = [pc EXCEPT ![t] = "idle"]
    /\ returnedLog' = IF call[t].clear
                      THEN returnedLog \o [i \in 1..Len(loc[t].msgs) |->
                               [to |-> call[t].agent, content |-> loc[t].msgs[i].content]]
                      ELSE returnedLog
    /\ UNCHANGED <<heap, states, messages, global_context, available_agents, call,
                   loc, ncalls, added, sentLog, seen, report>>
    /\ UNCHANGED notSM

GetMessages(t) == GM_Enter(t) \/ GM_Copy(t) \/ GM_Clear(t) \/ GM_Return(t)

\* ----------------------------------------------- StateManager.update_status
CallUpdateStatus(t, a, status, task) ==
    /\ MayCall(t)
    /\ ncalls' = [ncalls EXCEPT ![t] = @ + 1]
    /\ call' = [call EXCEPT ![t] = [NoCall EXCEPT !.op = "update_status", !.agent = a,
                                                  !.status = status, !.task = task]]
    /\ pc' = [pc EXCEPT ![t] = "us_enter"]
    /\ UNCHANGED <<smVars, loc, histVars>>
    /\ UNCHANGED notSM

\* with self._lock: state = self.get_agent_state(agent_name)
US_Enter(t) ==
    /\ pc[t] = "us_enter"
    /\ CanEnter(t)
    /\ held' = Enter(t)
    /\ loc' = [loc EXCEPT ![t].cont = "us_status"]
    /\ pc' = [pc EXCEPT ![t] = "gas_check"]
    /\ UNCHANGED <<heap, states, messages, global_context, available_agents,
                   call, ncalls, histVars>>
    /\ UNCHANGED notSM

\* state.status = status
US_SetStatus(t) ==
    /\ pc[t] = "us_status"
    /\ heap' = [heap EXCEPT ![loc[t].state].status = call[t].status]
    /\ pc' = [pc EXCEPT ![t] = "us_task"]
    /\ seen' = Observe(heap', states)
    /\ UNCHANGED <<states, messages, global_context, held, available_agents, call,
                   loc, ncalls, added, sentLog, returnedLog, report>>
    /\ UNCHANGED notSM

\* if current_task is not None: state.current_task = current_task
US_SetTask(t) ==
    /\ pc[t] = "us_task"
    /\ heap' = IF call[t].task # None
               THEN [heap EXCEPT ![loc[t].state].current_task = call[t].task]
               ELSE heap
    /\ held' = Leave(t)
    /\ pc' = [pc EXCEPT ![t] = "idle"]
    /\ seen' = Observe(heap', states)
    /\ UNCHANGED <<states, messages, global_context, available_agents, call, loc,
                   ncalls, added, sentLog, returnedLog, report>>
    /\ UNCHANGED notSM

UpdateStatus(t) == US_Enter(t) \/ US_SetStatus(t) \/ US_SetTask(t)

\* ------------------------------------------- CoordinatorAgent.delegate_task
\* message = {"type": "task_delegation", "task": task, "context": context}
DelegationBlank(task) == [type |-> "task_delegation", task |-> "", context |-> ""]

Delegation(task) == [type |-> "task_delegation", task |-> task, context |-> ""]

CallDelegateTask(t, a, task) ==
    /\ MayCall(t)
    /\ ncalls' = [ncalls EXCEPT ![t] = @ + 1]
    /\ call' = [call EXCEPT ![t] = [NoCall EXCEPT !.op = "delegate_task", !.agent = a,
                                                  !.from = Coordinator,
                                                  !.x = Delegation(task),
                                                  !.status = "working", !.task = task]]
    /\ pc' = [pc EXCEPT ![t] = "dt_check"]
    /\ UNCHANGED <<smVars, loc, histVars>>
    /\ UNCHANGED notSM

\* where delegate_task goes after its test of agent_name: to its return, or
\* to self.send_message(agent_name, message)
FirstCallUpdateStatus(known) == IF known THEN "us_enter" ELSE "idle"

FirstCall(known) == IF known THEN "sm_enter" ELSE "idle"

\* if agent_name not in self.available_agents: return "Error: ..."
\* else self.send_message(agent_name, message), then update_status(...)
DT_Check(t) ==
    /\ pc[t] = "dt_check"
    /\ pc' = [pc EXCEPT ![t] = FirstCall(call[t].agent \in available_agents)]
    /\ UNCHANGED <<smVars, call, loc, ncalls, histVars>>
    /\ UNCHANGED notSM

\* ---------------------------------------- CoordinatorAgent.get_agent_status
CallGetAgentStatus(t, a) ==
    /\ MayCall(t)
    /\ ncalls' = [ncalls EXCEPT ![t] = @ + 1]
    /\ call' = [call EXCEPT ![t] = [NoCall EXCEPT !.op = "get_agent_status",
                                                  !.agent = a]]
    /\ pc' = [pc EXCEPT ![t] = "gs_check"]
    /\ UNCHANGED <<smVars, loc, histVars>>
    /\ UNCHANGED notSM

StatusReport(a, err, status, task, count) ==
    [agent |-> a, error |-> err, status |-> status, current_task |-> task,
     results_count |-> count]

\* if agent_name not in self.available_agents: return {"error": ...}
\* else state = self.state_manager.get_agent_state(agent_name)
GS_Check(t) ==
    /\ pc[t] = "gs_check"
    /\ IF call[t].agent \in available_agents
       THEN /\ pc' = [pc EXCEPT ![t] = "gas_check"]
            /\ loc' = [loc EXCEPT ![t].cont = "gs_status"]
            /\ report' = report
       ELSE /\ pc' = [pc EXCEPT ![t] = "idle"]
            /\ loc' = loc
            /\ report' = <<StatusReport(call[t].agent, TRUE, None, None, 0)>>
    /\ UNCHANGED <<smVars, call, ncalls, added, sentLog, returnedLog, seen>>
    /\ UNCHANGED notSM

\* "status": state.status
GS_ReadStatus(t) ==
    /\ pc[t] = "gs_status"
    /\ loc' = [loc EXCEPT ![t].status = heap[loc[t].state].status]
    /\ pc' = [pc EXCEPT ![t] = "gs_task"]
    /\ UNCHANGED <<smVars, call, ncalls, histVars>>
    /\ UNCHANGED notSM

\* "current_task": state.current_task
GS_ReadTask(t) ==
    /\ pc[t] = "gs_task"
    /\ loc' = [loc EXCEPT ![t].task = heap[loc[t].state].current_task]
    /\ pc' = [pc EXCEPT ![t] = "gs_count"]
    /\ UNCHANGED <<smVars, call, ncalls, histVars>>
    /\ UNCHANGED notSM

\* "results_count": len(state.results); return json.dumps({...})
GS_ReadCount(t) ==
    /\ pc[t] = "gs_count"
    /\ report' = <<StatusReport(call[t].agent, FALSE, loc[t].status, loc[t].task,
                                Len(heap[loc[t].state].results))>>
    /\ pc' = [pc EXCEPT ![t] = "idle"]
    /\ UNCHANGED <<smVars, call, loc, ncalls, added, sentLog, returnedLog, seen>>
    /\ UNCHANGED notSM

GetAgentStatus(t) ==
    GS_Check(t) \/ GS_ReadStatus(t) \/ GS_ReadTask(t) \/ GS_ReadCount(t)

\* ------------------------------------------ StateManager.set_global_context
ContextKeys == {"topic", "deadline"}

CallSetGlobalContext(t, k) ==
    /\ MayCall(t)
    /\ ncalls' = [ncalls EXCEPT ![t] = @ + 1]
    /\ call' = [call EXCEPT ![t] = [NoCall EXCEPT !.op = "set_global_context",
                                                  !.key = k, !.x = <<t, 0>>]]
    /\ pc' = [pc EXCEPT ![t] = "sgc_enter"]
    /\ UNCHANGED <<smVars, loc, histVars>>
    /\ UNCHANGED notSM

\* with self._lock:
SGC_Enter(t) ==
    /\ pc[t] = "sgc_enter"
    /\ CanEnter(t)
    /\ held' = Enter(t)
    /\ pc' = [pc EXCEPT ![t] = "sgc_set"]
    /\ UNCHANGED <<heap, states, messages, global_context, available_agents,
                   call, loc, ncalls, histVars>>
    /\ UNCHANGED notSM

\* self._global_context[key] = value
SGC_Set(t) ==
    /\ pc[t] = "sgc_set"
    /\ global_context' = Put(global_context, call[t].key, call[t].x)
    /\ held' = Leave(t)
    /\ pc' = [pc EXCEPT ![t] = "idle"]
    /\ UNCHANGED <<heap, states, messages, available_agents, call, loc, ncalls,
                   histVars>>
    /\ UNCHANGED notSM

SetGlobalContext(t) == SGC_Enter(t) \/ SGC_Set(t)

\* ------------------------------------------ StateManager.get_global_context
CallGetGlobalContext(t, k) ==
    /\ MayCall(t)
    /\ ncalls' = [ncalls EXCEPT ![t] = @ + 1]
    /\ call' = [call EXCEPT ![t] = [NoCall EXCEPT !.op = "get_global_context",
                                                  !.key = k]]
    /\ pc' = [pc EXCEPT ![t] = "ggc_enter"]
    /\ UNCHANGED <<smVars, loc, histVars>>
    /\ UNCHANGED notSM

\* with self._lock:
GGC_Enter(t) ==
    /\ pc[t] = "ggc_enter"
    /\ CanEnter(t)
    /\ held' = Enter(t)
    /\ pc' = [pc EXCEPT ![t] = "ggc_read"]
    /\ UNCHANGED <<heap, states, messages, global_context, available_agents,
                   call, loc, ncalls, histVars>>
    /\ UNCHANGED notSM

\* dict.get(key): the value, or None if the key is not there
DictGet(d, k) == IF k \in DOMAIN d THEN d[k] ELSE None

\* return self._global_context.get(key)
GGC_Read(t) ==
    /\ pc[t] = "ggc_read"
    /\ loc' = [loc EXCEPT ![t].value = DictGet(global_context, call[t].key)]
    /\ held' = Leave(t)
    /\ pc' = [pc EXCEPT ![t] = "idle"]
    /\ UNCHANGED <<heap, states, messages, global_context, available_agents,
                   call, ncalls, histVars>>
    /\ UNCHANGED notSM

GetGlobalContext(t) == GGC_Enter(t) \/ GGC_Read(t)

\* ---------------------------------------- StateManager.get_all_agent_states
CallGetAllAgentStates(t) ==
    /\ MayCall(t)
    /\ ncalls' = [ncalls EXCEPT ![t] = @ + 1]
    /\ call' = [call EXCEPT ![t] = [NoCall EXCEPT !.op = "get_all_agent_states"]]
    /\ pc' = [pc EXCEPT ![t] = "gaa_enter"]
    /\ UNCHANGED <<smVars, loc, histVars>>
    /\ UNCHANGED notSM

\* with self._lock:
GAA_Enter(t) ==
    /\ pc[t] = "gaa_enter"
    /\ CanEnter(t)
    /\ held' = Enter(t)
    /\ pc' = [pc EXCEPT ![t] = "gaa_copy"]
    /\ UNCHANGED <<heap, states, messages, global_context, available_agents,
                   call, loc, ncalls, histVars>>
    /\ UNCHANGED notSM

\* self._states.copy(): a new dict that names the same objects; a dict a
\* caller holds is either such a copy or self._states itself
StatesItself(st) == [live |-> TRUE, names |-> st]

StatesCopy(st) == [live |-> FALSE, names |-> st]

\* the mapping a caller finds in the dict c it holds
Through(c) == IF c.live THEN states ELSE c.names

\* return self._states.copy()
GAA_Copy(t) ==
    /\ pc[t] = "gaa_copy"
    /\ loc' = [loc EXCEPT ![t].copy = StatesCopy(states)]
    /\ held' = Leave(t)
    /\ pc' = [pc EXCEPT ![t] = "idle"]
    /\ UNCHANGED <<heap, states, messages, global_context, available_agents,
                   call, ncalls, histVars>>
    /\ UNCHANGED notSM

GetAllAgentStates(t) == GAA_Enter(t) \/ GAA_Copy(t)

\* ------------------------------------------------------ StateManager.reset
CallReset(t) ==
    /\ MayCall(t)
    /\ ncalls' = [ncalls EXCEPT ![t] = @ + 1]
    /\ call' = [call EXCEPT ![t] = [NoCall EXCEPT !.op = "reset"]]
    /\ pc' = [pc EXCEPT ![t] = "rs_enter"]
    /\ UNCHANGED <<smVars, loc, histVars>>
    /\ UNCHANGED notSM

\* with self._lock:
RS_Enter(t) ==
    /\ pc[t] = "rs_enter"
    /\ CanEnter(t)
    /\ held' = Enter(t)
    /\ pc' = [pc EXCEPT ![t] = "rs_states"]
    /\ UNCHANGED <<heap, states, messages, global_context, available_agents,
                   call, loc, ncalls, histVars>>
    /\ UNCHANGED notSM

\* self._states.clear(): the objects stay with whoever holds them
RS_States(t) ==
    /\ pc[t] = "rs_states"
    /\ states' = EmptyMap
    /\ pc' = [pc EXCEPT ![t] = "rs_messages"]
    /\ UNCHANGED <<heap, messages, global_context, held, available_agents,
                   call, loc, ncalls, histVars>>
    /\ UNCHANGED notSM

\* self._messages.clear()
RS_Messages(t) ==
    /\ pc[t] = "rs_messages"
    /\ messages' = EmptyMap
    /\ pc' = [pc EXCEPT ![t] = "rs_context"]
    /\ UNCHANGED <<heap, states, global_context, held, available_agents,
                   call, loc, ncalls, histVars>>
    /\ UNCHANGED notSM

\* self._global_context.clear(), and the with block ends
RS_Context(t) ==
    /\ pc[t] = "rs_context"
    /\ global_context' = EmptyMap
    /\ held' = Leave(t)
    /\ pc' = [pc EXCEPT ![t] = "idle"]
    /\ UNCHANGED <<heap, states, messages, available_agents, call, loc, ncalls,
                   histVars>>
    /\ UNCHANGED notSM

Reset(t) == RS_Enter(t) \/ RS_States(t) \/ RS_Messages(t) \/ RS_Context(t)

\* ------------------------------------------------------- the clock
Tick ==
    /\ now < MaxTime
    /\ now' = now + 1

\* ---------------------------------------------------- retry_with_backoff
Min(a, b) == IF a < b THEN a ELSE b

RECURSIVE Pow(_, _)
Pow(b, n) == IF n = 0 THEN 1 ELSE b * Pow(b, n - 1)

\* RetryConfig(max_attempts=3) as recover builds it; delays in ticks
RecoverRetryConfig ==
    [max_attempts |-> 3, initial_delay |-> 2, max_delay |-> 120,
     exponential_base |-> 2, jitter |-> TRUE]

\* calculate_backoff_delay: min(initial * base**attempt, max_delay), times
\* (0.5 + random() * 0.5) under jitter; r in 0..delay/2 stands for the draw
\* min(x * b**n, cap) for b >= 1, by multiplying only while below the cap
RECURSIVE Scaled(_, _, _, _)
Scaled(x, b, n, cap) ==
    IF n = 0 \/ x >= cap \/ b = 1 THEN Min(x, cap) ELSE Scaled(x * b, b, n - 1, cap)

BackoffBase(attempt, config) ==
    Scaled(config.initial_delay, config.exponential_base, attempt, config.max_delay)

CalculateBackoffDelay(attempt, config, r) ==
    IF config.jitter
    THEN (BackoffBase(attempt, config) \div 2) + r
    ELSE BackoffBase(attempt, config)

\* the wrapper's loop over range(max_attempts), for a func that raises on
\* its first `fails` invocations: invocations made, whether one returned,
\* and the attempts after which it slept
RECURSIVE RetryLoopInclusive(_, _, _)
RetryLoopInclusive(attempt, fails, config) ==
    IF attempt > config.max_attempts
    THEN [calls |-> 0, ok |-> FALSE, slept |-> <<>>]
    ELSE IF attempt >= fails
         THEN [calls |-> 1, ok |-> TRUE, slept |-> <<>>]
         ELSE LET rest == RetryLoopInclusive(attempt + 1, fails, config)
              IN  [calls |-> 1 + rest.calls,
                   ok |-> rest.ok,
                   slept |-> IF attempt < config.max_attempts - 1
                             THEN <<attempt>> \o rest.slept
                             ELSE rest.slept]

RECURSIVE RetryLoop(_, _, _)
RetryLoop(attempt, fails, config) ==
    IF attempt >= config.max_attempts
    THEN [calls |-> 0, ok |-> FALSE, slept |-> <<>>]
    ELSE IF attempt >= fails
         THEN [calls |-> 1, ok |-> TRUE, slept |-> <<>>]
         ELSE LET rest == RetryLoop(attempt + 1, fails, config)
              IN  [calls |-> 1 + rest.calls,
                   ok |-> rest.ok,
                   slept |-> IF attempt < config.max_attempts - 1
                             THEN <<attempt>> \o rest.slept
                             ELSE rest.slept]

\* the shortest and the longest total of the sleeps after the attempts in s
RECURSIVE SleepLo(_, _)
SleepLo(s, config) ==
    IF s = <<>> THEN 0
    ELSE CalculateBackoffDelay(Head(s), config, 0) + SleepLo(Tail(s), config)

RECURSIVE SleepHi(_, _)
SleepHi(s, config) ==
    IF s = <<>> THEN 0
    ELSE CalculateBackoffDelay(Head(s), config,
                               IF config.jitter THEN BackoffBase(Head(s), config) \div 2
                               ELSE 0)
         + SleepHi(Tail(s), config)

\* config.exponential_base**attempt is a float power: Python raises
\* OverflowError when the result is 2.0**1024 or more
FloatMaxExponent == 1024

\* the exponent of a base that is a power of two
Log2(b) == CASE b = 1 -> 0 [] b = 2 -> 1 [] b = 4 -> 2

PowOverflows(b, n) == Log2(b) * n >= FloatMaxExponent

\* calculate_backoff_delay(attempt, config), with r for the draw of
\* random.random()
CalculateBackoffCall(attempt, config, r) ==
    /\ wrapper.kind = "none"
    /\ r \in 0..(IF config.jitter THEN BackoffBase(attempt, config) \div 2 ELSE 0)
    /\ wrapper' =
           IF PowOverflows(config.exponential_base, attempt)
           THEN [kind |-> "calculate_backoff_delay", attempt |-> attempt,
                 config |-> config, outcome |-> "raised",
                 exception |-> "OverflowError", delay |-> 0]
           ELSE [kind |-> "calculate_backoff_delay", attempt |-> attempt,
                 config |-> config, outcome |-> "returned", exception |-> None,
                 delay |-> CalculateBackoffDelay(attempt, config, r)]
    /\ UNCHANGED <<rlVars, notWrap>>

\* --------------------------------------------------- ErrorRecoveryHandler
Operations == {"op", "other"}

\* RecoveryStrategy
RecoveryStrategy == {"retry", "fallback", "skip", "escalate", "circuit_breaker"}

Remove(f, k) == [x \in (DOMAIN f) \ {k} |-> f[x]]

\* self.failure_counts.get(operation, 0)
FailureCount(fc, op) == IF op \in DOMAIN fc THEN fc[op] ELSE 0

\* is_circuit_open: operation in circuit_open_until and time.time() < it
IsOpenInclusive(cou, op, t) == op \in DOMAIN cou /\ t <= cou[op]

IsOpen(cou, op, t) == op \in DOMAIN cou /\ t < cou[op]

\* is_circuit_open's else branch: the timeout expired
Expired(cou, op, t) == op \in DOMAIN cou /\ ~IsOpen(cou, op, t)

\* del self.circuit_open_until[operation]
ICO_OpenUntil(cou, op, t) == IF Expired(cou, op, t) THEN Remove(cou, op) ELSE cou

\* self.failure_counts[operation] = 0
ICO_Counts(fc, cou, op, t) == IF Expired(cou, op, t) THEN Put(fc, op, 0) ELSE fc

\* record_failure: self.failure_counts[operation] = get(operation, 0) + 1
RF_Counts(fc, op) == Put(fc, op, FailureCount(fc, op) + 1)

\* record_failure: if count >= threshold: open until time.time() + timeout
RF_OpenUntil(fc, cou, op, t) ==
    IF fc[op] >= circuit_breaker_threshold
    THEN Put(cou, op, t + circuit_breaker_timeout)
    ELSE cou

\* record_success: if operation in self.failure_counts: ... = 0
RS_CountsKept(fc, op) == fc

RS_Counts(fc, op) == IF op \in DOMAIN fc THEN Put(fc, op, 0) ELSE fc

NoLast ==
    [kind |-> "none", operation |-> None, result |-> None, hadEntry |-> FALSE,
     wasOpen |-> FALSE, atDeadline |-> FALSE, recoverable |-> TRUE,
     fallback |-> "none", calls |-> 0, exhausted |-> FALSE, countBefore |-> 0,
     streakBefore |-> 0, within |-> FALSE]

\* history: a failure of op was recorded at time t
NoteFailure(op, t) ==
    /\ failsSince' = [failsSince EXCEPT ![op] = @ + 1]
    /\ failAt' = [failAt EXCEPT ![op] = t]
    /\ reachedAt' = IF reachedAt[op] = -1 /\ failsSince[op] + 1 >= circuit_breaker_threshold
                    THEN [reachedAt EXCEPT ![op] = t]
                    ELSE reachedAt

\* history: the circuit of op was reset
NoteReset(op) ==
    /\ failsSince' = [failsSince EXCEPT ![op] = 0]
    /\ streak' = [streak EXCEPT ![op] = 0]
    /\ reachedAt' = [reachedAt EXCEPT ![op] = -1]

\* is_circuit_open(operation)
IsCircuitOpenCall(op) ==
    /\ nops < MaxOps
    /\ nops' = nops + 1
    /\ circuit_open_until' = ICO_OpenUntil(circuit_open_until, op, now)
    /\ failure_counts' = ICO_Counts(failure_counts, circuit_open_until, op, now)
    /\ last' = [NoLast EXCEPT !.kind = "is_circuit_open", !.operation = op,
                              !.result = IsOpen(circuit_open_until, op, now),
                              !.hadEntry = op \in DOMAIN circuit_open_until,
                              !.wasOpen = (op \in DOMAIN circuit_open_until
                                           /\ now < circuit_open_until[op]),
                              !.atDeadline = (reachedAt[op] # -1 /\
                                  now = reachedAt[op] + circuit_breaker_timeout),
                              !.countBefore = FailureCount(failure_counts, op)]
    /\ IF op \in DOMAIN circuit_open_until /\ ~(now < circuit_open_until[op])
       THEN NoteReset(op)
       ELSE UNCHANGED <<failsSince, streak, reachedAt>>
    /\ UNCHANGED <<now, error_history, circuit_breaker_threshold,
                   circuit_breaker_timeout, failAt, recorded>>
    /\ UNCHANGED notEH

\* record_failure(operation)
RecordFailureCall(op) ==
    /\ nops < MaxOps
    /\ nops' = nops + 1
    /\ failure_counts' = RF_Counts(failure_counts, op)
    /\ circuit_open_until' = RF_OpenUntil(failure_counts', circuit_open_until, op, now)
    /\ last' = [NoLast EXCEPT !.kind = "record_failure", !.operation = op,
                              !.countBefore = FailureCount(failure_counts, op)]
    /\ NoteFailure(op, now)
    /\ recorded' = [recorded EXCEPT ![op] = @ + 1]
    /\ UNCHANGED <<now, error_history, circuit_breaker_threshold,
                   circuit_breaker_timeout, streak>>
    /\ UNCHANGED notEH

\* record_success(operation)
RecordSuccessCall(op) ==
    /\ nops < MaxOps
    /\ nops' = nops + 1
    /\ failure_counts' = RS_Counts(failure_counts, op)
    /\ last' = [NoLast EXCEPT !.kind = "record_success", !.operation = op,
                              !.countBefore = FailureCount(failure_counts, op)]
    /\ failsSince' = [failsSince EXCEPT ![op] = 0]
    /\ streak' = [streak EXCEPT ![op] = 0]
    /\ UNCHANGED <<now, circuit_open_until, error_history, circuit_breaker_threshold,
                   circuit_breaker_timeout, reachedAt, failAt, recorded>>
    /\ UNCHANGED notEH

\* ErrorRecord(error=error.to_dict(), context=context, recovery_strategy=...)
ErrorRecord(op, recoverable, strategy) ==
    [operation |-> op, recoverable |-> recoverable, recovery_strategy |-> strategy]

\* handle_error, line 574: strategy == CIRCUIT_BREAKER and context.operation
FeedsBreakerAlways(op, strategy) == op # None

FeedsBreaker(op, strategy) == strategy = "circuit_breaker" /\ op # None

\* what handle_error(error, context, strategy) does to the handler;
\* op = None: context.operation unset
Handled(op, recoverable, strategy) ==
    /\ nops < MaxOps
    /\ nops' = nops + 1
    /\ error_history' = Append(error_history, ErrorRecord(op, recoverable, strategy))
    /\ last' = [NoLast EXCEPT !.kind = "handle_error", !.operation = op,
                              !.result = strategy,
                              !.countBefore = FailureCount(failure_counts, op)]
    /\ IF FeedsBreaker(op, strategy)
       THEN /\ failure_counts' = RF_Counts(failure_counts, op)
            /\ circuit_open_until' =
                   RF_OpenUntil(failure_counts', circuit_open_until, op, now)
            /\ NoteFailure(op, now)
       ELSE UNCHANGED <<failure_counts, circuit_open_until, failsSince, reachedAt,
                        failAt>>
    /\ UNCHANGED <<now, circuit_breaker_threshold, circuit_breaker_timeout, streak,
                   recorded>>

\* handle_error(error, context, strategy), called on its own
HandleError(op, recoverable, strategy) ==
    /\ Handled(op, recoverable, strategy)
    /\ UNCHANGED notEH

\* ------------------------------------------------------------ safe_execute
\* what func does when it is invoked: it returns (None) or raises one of
\* these; ToolExecutionError is a subclass of AgentError
Raised == {"AgentError", "ToolExecutionError", "ValueError"}

\* except AgentError as e
IsAgentError(x) == x \in {"AgentError", "ToolExecutionError"}

\* the AgentError that safe_execute returns for the exception x of func:
\* x itself, or AgentError(message=..., original_exception=x)
ErrorFor(x, recoverable) ==
    IF IsAgentError(x)
    THEN [type |-> x, recoverable |-> recoverable, original_exception |-> None,
          raised_by_func |-> TRUE]
    ELSE [type |-> "AgentError", recoverable |-> TRUE, original_exception |-> x,
          raised_by_func |-> FALSE]

\* if error_handler and context
Handles(error_handler, context) == error_handler /\ context

\* safe_execute(func, default=default, error_handler=..., context=...): func
\* returns or raises x; error_handler and context tell whether each is given,
\* op is context.operation, recoverable the flag of an AgentError func raises,
\* named whether func has a __name__ (a function or a method has one, a
\* functools.partial or another callable object has none)
SafeExecute(x, recoverable, error_handler, context, op, named) ==
    /\ x # "AgentError" => recoverable
    /\ ~context => op = None
    /\ LET w == [kind |-> "safe_execute", raised |-> x, named |-> named,
                 error_handler |-> error_handler, context |-> context,
                 outcome |-> "returned", exception |-> None, result |-> "default",
                 has_error |-> TRUE, error |-> ErrorFor("AgentError", TRUE)]
       IN
       IF x = None
       THEN /\ wrapper' = [w EXCEPT !.result = "func_result", !.has_error = FALSE]
            /\ UNCHANGED <<ehVars, ehHist, now>>
       ELSE IF ~IsAgentError(x) /\ ~named
       THEN \* f"Unexpected error in {func.__name__}: ..." raises AttributeError
            /\ wrapper' = [w EXCEPT !.outcome = "raised",
                                    !.exception = "AttributeError",
                                    !.result = None, !.has_error = FALSE]
            /\ UNCHANGED <<ehVars, ehHist, now>>
       ELSE LET error == ErrorFor(x, recoverable) IN
            /\ wrapper' = [w EXCEPT !.error = error]
            /\ IF Handles(error_handler, context)
               THEN Handled(op, error.recoverable, "retry")
               ELSE UNCHANGED <<ehVars, ehHist, now>>
    /\ UNCHANGED <<smVars, thVars, histVars, rlVars, seqVars>>

\* what a fallback_func() call gives: its result, or its exception
Fallbacks == {"none", "ok", "raises"}

FallbackResult(fallback) ==
    CASE fallback = "none" -> None
      [] fallback = "ok" -> "fallback_result"
      [] OTHER -> "raised"

\* recover, line 597-605: the fallback's exception is caught there
NonRecoverableResult(fallback) ==
    IF fallback = "ok" THEN "fallback_result" ELSE None

\* recover, line 608: context.operation and self.is_circuit_open(...)
ShortCircuitNever(cou, op, t) == FALSE

ShortCircuit(cou, op, t) == op # None /\ IsOpen(cou, op, t)

\* recover's retry of func (line 615-618) for a func that raises on its
\* first `fails` invocations
RecoverRetry(fails) == RetryLoop(0, fails, RecoverRetryConfig)

\* recover(func, error, context, fallback_func); func raises on its first
\* `fails` invocations (taken as 0 on the paths that never invoke it)
Recover(op, recoverable, fallback, fails) ==
    /\ nops < MaxOps
    /\ nops' = nops + 1
    /\ LET base == [NoLast EXCEPT !.kind = "recover", !.operation = op,
                                  !.recoverable = recoverable, !.fallback = fallback,
                                  !.hadEntry = op \in DOMAIN circuit_open_until,
                                  !.wasOpen = (op \in DOMAIN circuit_open_until
                                               /\ now < circuit_open_until[op]),
                                  !.within = (op \in Operations /\ failAt[op] # -1
                                      /\ now < failAt[op] + circuit_breaker_timeout),
                                  !.countBefore = FailureCount(failure_counts, op),
                                  !.streakBefore = IF op \in Operations
                                                   THEN streak[op] ELSE 0]
           run == RecoverRetry(fails)
           fc1 == IF op # None
                  THEN ICO_Counts(failure_counts, circuit_open_until, op, now)
                  ELSE failure_counts
           cou1 == IF op # None
                   THEN ICO_OpenUntil(circuit_open_until, op, now)
                   ELSE circuit_open_until
           reset == op \in DOMAIN circuit_open_until /\ ~(now < circuit_open_until[op])
       IN
       IF ~recoverable
       THEN /\ fails = 0
            /\ last' = [base EXCEPT !.result = NonRecoverableResult(fallback)]
            /\ UNCHANGED <<now, failure_counts, circuit_open_until, failsSince,
                           streak, reachedAt, failAt>>
       ELSE IF ShortCircuit(circuit_open_until, op, now)
       THEN /\ fails = 0
            /\ last' = [base EXCEPT !.result = FallbackResult(fallback)]
            /\ UNCHANGED <<now, failure_counts, circuit_open_until, failsSince,
                           streak, reachedAt, failAt>>
       ELSE \E e \in SleepLo(run.slept, RecoverRetryConfig)
                       ..SleepHi(run.slept, RecoverRetryConfig) :
            /\ now + e <= MaxTime
            /\ now' = now + e
            /\ IF run.ok
               THEN /\ last' = [base EXCEPT !.result = "func_result",
                                            !.calls = run.calls]
                    /\ failure_counts' = IF op # None THEN RS_Counts(fc1, op) ELSE fc1
                    /\ circuit_open_until' = cou1
                    /\ IF op # None
                       THEN /\ failsSince' = [failsSince EXCEPT ![op] = 0]
                            /\ streak' = [streak EXCEPT ![op] = 0]
                            /\ reachedAt' = IF reset THEN [reachedAt EXCEPT ![op] = -1]
                                            ELSE reachedAt
                            /\ failAt' = failAt
                       ELSE UNCHANGED <<failsSince, streak, reachedAt, failAt>>
               ELSE /\ last' = [base EXCEPT !.result = FallbackResult(fallback),
                                            !.calls = run.calls, !.exhausted = TRUE]
                    /\ failure_counts' = IF op # None THEN RF_Counts(fc1, op) ELSE fc1
                    /\ circuit_open_until' =
                           IF op # None
                           THEN RF_OpenUntil(failure_counts', cou1, op, now + e)
                           ELSE cou1
                    /\ IF op # None
                       THEN LET f0 == IF reset THEN 0 ELSE failsSince[op]
                                s0 == IF reset THEN 0 ELSE streak[op]
                                r0 == IF reset THEN -1 ELSE reachedAt[op]
                            IN  /\ failsSince' = [failsSince EXCEPT ![op] = f0 + 1]
                                /\ streak' = [streak EXCEPT ![op] = s0 + 1]
                                /\ reachedAt' =
                                       IF r0 = -1 /\ f0 + 1 >= circuit_breaker_threshold
                                       THEN [reachedAt EXCEPT ![op] = now + e]
                                       ELSE [reachedAt EXCEPT ![op] = r0]
                                /\ failAt' = [failAt EXCEPT ![op] = now + e]
                       ELSE UNCHANGED <<failsSince, streak, reachedAt, failAt>>
    /\ UNCHANGED <<error_history, circuit_breaker_threshold, circuit_breaker_timeout,
                   recorded>>
    /\ UNCHANGED notEH

\* ------------------ ErrorRecoveryHandler.record_failure, statement by statement
\* The handler has no lock: threads interleave between its statements.
CallRecordFailure(t, op) ==
    /\ MayCall(t)
    /\ ncalls' = [ncalls EXCEPT ![t] = @ + 1]
    /\ call' = [call EXCEPT ![t] = [NoCall EXCEPT !.op = "record_failure", !.agent = op]]
    /\ pc' = [pc EXCEPT ![t] = "rf_read"]
    /\ UNCHANGED <<wrapVars, seqVars, rlVars, smVars, loc, histVars, now, ehVars, ehHist>>

\* self.failure_counts.get(operation, 0)
RF_Read(t) ==
    /\ pc[t] = "rf_read"
    /\ loc' = [loc EXCEPT ![t].count = FailureCount(failure_counts, call[t].agent)]
    /\ pc' = [pc EXCEPT ![t] = "rf_write"]
    /\ UNCHANGED <<wrapVars, seqVars, rlVars, smVars, call, ncalls, histVars, now, ehVars, ehHist>>

\* self.failure_counts[operation] = ... + 1
RF_Write(t) ==
    /\ pc[t] = "rf_write"
    /\ failure_counts' = Put(failure_counts, call[t].agent, loc[t].count + 1)
    /\ pc' = [pc EXCEPT ![t] = "rf_test"]
    /\ UNCHANGED <<wrapVars, seqVars, rlVars, smVars, call, loc, ncalls, histVars, now, circuit_open_until,
                   error_history, circuit_breaker_threshold, circuit_breaker_timeout,
                   ehHist>>

\* if self.failure_counts[operation] >= self.circuit_breaker_threshold:
RF_Test(t) ==
    /\ pc[t] = "rf_test"
    /\ IF failure_counts[call[t].agent] >= circuit_breaker_threshold
       THEN /\ pc' = [pc EXCEPT ![t] = "rf_open"]
            /\ recorded' = recorded
       ELSE /\ pc' = [pc EXCEPT ![t] = "idle"]
            /\ recorded' = [recorded EXCEPT ![call[t].agent] = @ + 1]
    /\ UNCHANGED <<wrapVars, seqVars, rlVars, smVars, call, loc, ncalls, histVars, now, ehVars, nops, last,
                   failsSince, streak, reachedAt, failAt>>

\* self.circuit_open_until[operation] = time.time() + timeout
RF_Open(t) ==
    /\ pc[t] = "rf_open"
    /\ circuit_open_until' = Put(circuit_open_until, call[t].agent,
                                 now + circuit_breaker_timeout)
    /\ pc' = [pc EXCEPT ![t] = "idle"]
    /\ recorded' = [recorded EXCEPT ![call[t].agent] = @ + 1]
    /\ UNCHANGED <<wrapVars, seqVars, rlVars, smVars, call, loc, ncalls, histVars, now, failure_counts,
                   error_history, circuit_breaker_threshold, circuit_breaker_timeout,
                   nops, last, failsSince, streak, reachedAt, failAt>>

RecordFailure(t) == RF_Read(t) \/ RF_Write(t) \/ RF_Test(t) \/ RF_Open(t)

\* ------------------------------------------------------------ RateLimiter
\* self.period = 1.0 (requests_per_second), in ticks
Period == 2

\* RateLimiter(RateLimitConfig(requests_per_second=rate, burst_size=burst,
\* wait_on_limit=wait)) built at time t.  tokens and max_tokens are kept in
\* units of 1/Period of a token, so that a tick adds `rate` of them.
RateLimiter(rate, burst, wait, t) ==
    [kind |-> "RateLimiter", lock |-> 0, rate |-> rate, period |-> Period,
     tokens |-> burst * Period, max_tokens |-> burst * Period,
     last_update |-> t, wait_on_limit |-> wait]

\* with self.lock: the Lock can be taken
LockFreeAlways(l) == TRUE

LockFree(l) == l.lock = 0

\* _add_tokens at time t
AddTokensUncapped(l, t) ==
    [l EXCEPT !.tokens = l.tokens + (t - l.last_update) * l.rate, !.last_update = t]

AddTokens(l, t) ==
    [l EXCEPT !.tokens = Min(l.max_tokens, l.tokens + (t - l.last_update) * l.rate),
              !.last_update = t]

\* wait_time = (tokens - self.tokens) * (self.period / self.rate), in ticks,
\* rounded up: time.sleep sleeps at least that long
WaitTime(l, n) == (n * Period - l.tokens + l.rate - 1) \div l.rate

\* retry_after = (tokens - self.tokens) * (self.period / self.rate), in ticks,
\* as the fraction <<numerator, denominator>>
RetryAfter(l, n) == <<n * Period - l.tokens, l.rate>>

\* if self.tokens >= tokens
HasTokensToSpare(l, n) == l.tokens > n * Period

HasTokens(l, n) == l.tokens >= n * Period

\* history: one acquire(n) call, from the limiter l it found to the limiter m
\* it left
AcquireRecord(l, m, n, outcome, retry_after) ==
    [tokens |-> n, at |-> now, before |-> l.tokens, last_update |-> l.last_update,
     outcome |-> outcome, retry_after |-> retry_after, after |-> m.tokens]

\* acquire(n) up to its return, its raise or the start of its sleep
Acquire(t, n) ==
    /\ MayCall(t)
    /\ limiter.kind = "RateLimiter"
    /\ LockFree(limiter)
    /\ ncalls' = [ncalls EXCEPT ![t] = @ + 1]
    /\ call' = [call EXCEPT ![t] = [NoCall EXCEPT !.op = "acquire", !.tokens = n]]
    /\ LET l == AddTokens(limiter, now) IN
        IF HasTokens(l, n)
        THEN /\ limiter' = [l EXCEPT !.tokens = @ - n * Period]
             /\ returned' = returned + 1
             /\ acqLog' = Append(acqLog,
                    AcquireRecord(limiter, limiter', n, "returned", <<0, 1>>))
             /\ UNCHANGED <<pc, loc, raised>>
        ELSE IF ~l.wait_on_limit
        THEN /\ limiter' = l
             /\ raised' = raised + 1
             /\ acqLog' = Append(acqLog,
                    AcquireRecord(limiter, limiter', n, "raised", RetryAfter(l, n)))
             /\ UNCHANGED <<pc, loc, returned>>
        ELSE /\ limiter' = [l EXCEPT !.lock = t]
             /\ loc' = [loc EXCEPT ![t].wake = now + WaitTime(l, n)]
             /\ pc' = [pc EXCEPT ![t] = "rl_sleep"]
             /\ acqLog' = Append(acqLog,
                    AcquireRecord(limiter, limiter', n, "sleeping", <<0, 1>>))
             /\ UNCHANGED <<returned, raised>>
    /\ UNCHANGED <<now, notRL>>

\* time.sleep(wait_time) is over: self.tokens = 0, leave the with block
AcquireWake(t) ==
    /\ pc[t] = "rl_sleep"
    /\ now >= loc[t].wake
    /\ limiter' = [limiter EXCEPT !.tokens = 0, !.lock = 0]
    /\ returned' = returned + 1
    /\ acqLog' = [acqLog EXCEPT ![Len(acqLog)].outcome = "waited",
                                ![Len(acqLog)].after = limiter'.tokens]
    /\ pc' = [pc EXCEPT ![t] = "idle"]
    /\ UNCHANGED <<call, loc, ncalls, raised, now, notRL>>

\* ----------------------------------------------- SlidingWindowRateLimiter
\* SlidingWindowRateLimiter(RateLimitConfig(requests_per_second=n,
\* wait_on_limit=wait))
SlidingWindowRateLimiter(n, wait) ==
    [kind |-> "SlidingWindowRateLimiter", lock |-> 0, window_size |-> Period,
     max_requests |-> n, requests |-> <<>>, wait_on_limit |-> wait]

\* while self.requests and self.requests[0] < cutoff: self.requests.popleft()
RECURSIVE Evict(_, _)
Evict(requests, cutoff) ==
    IF requests # <<>> /\ Head(requests) < cutoff
    THEN Evict(Tail(requests), cutoff)
    ELSE requests

\* acquire() up to its return, its raise or the start of its sleep
WindowAcquire(t) ==
    /\ MayCall(t)
    /\ limiter.kind = "SlidingWindowRateLimiter"
    /\ LockFree(limiter)
    /\ ncalls' = [ncalls EXCEPT ![t] = @ + 1]
    /\ call' = [call EXCEPT ![t] = [NoCall EXCEPT !.op = "acquire"]]
    /\ LET requests == Evict(limiter.requests, now - limiter.window_size) IN
        IF Len(requests) < limiter.max_requests
        THEN /\ limiter' = [limiter EXCEPT !.requests = Append(requests, now)]
             /\ returned' = returned + 1
             /\ UNCHANGED <<pc, loc, raised>>
        ELSE IF ~limiter.wait_on_limit
        THEN /\ limiter' = [limiter EXCEPT !.requests = requests]
             /\ raised' = raised + 1
             /\ UNCHANGED <<pc, loc, returned>>
        ELSE /\ limiter' = [limiter EXCEPT !.requests = requests, !.lock = t]
             /\ loc' = [loc EXCEPT ![t].wake = requests[1] + limiter.window_size]
             /\ pc' = [pc EXCEPT ![t] = "sw_sleep"]
             /\ UNCHANGED <<returned, raised>>
    /\ UNCHANGED <<now, acqLog, notRL>>

\* time.sleep(wait_time) is over: evict again, append, leave the with block
WindowAcquireWake(t) ==
    /\ pc[t] = "sw_sleep"
    /\ now >= loc[t].wake
    /\ limiter' = [limiter EXCEPT
           !.requests = Append(Evict(@, now - limiter.window_size), now),
           !.lock = 0]
    /\ returned' = returned + 1
    /\ pc' = [pc EXCEPT ![t] = "idle"]
    /\ UNCHANGED <<call, loc, ncalls, raised, acqLog, now, notRL>>

\* ------------------------------- the calls of one thread, each as a whole
\* A call made while no other call is running: its steps, which the sections
\* above take one by one, are taken here in one action.

\* (self._states, and the objects it names) after register_agent(a)
RegisteredAnew(h, st, a) ==
    [heap |-> Append(h, AgentState(a)), states |-> Put(st, a, Len(h) + 1)]

Registered(h, st, a) ==
    IF a \in DOMAIN st
    THEN [heap |-> h, states |-> st]
    ELSE [heap |-> Append(h, AgentState(a)), states |-> Put(st, a, Len(h) + 1)]

\* history: the messages sent to a and not yet cleared
Pending(a) == IF a \in DOMAIN pending THEN pending[a] ELSE <<>>

\* history: one more call, c, has returned
Returned(c) ==
    /\ ntools < MaxCalls
    /\ ntools' = ntools + 1
    /\ tool' = c
    /\ UNCHANGED notTools

\* StateManager.register_agent(a)
RegisterAgentCall(a) ==
    /\ LET r == Registered(heap, states, a) IN
        /\ heap' = r.heap
        /\ states' = r.states
    /\ Returned([NoTool EXCEPT !.op = "register_agent", !.agent = a])
    /\ UNCHANGED <<messages, global_context, available_agents, pending>>

\* StateManager.get_agent_state(a): the object is returned, here as its value
GetAgentStateCall(a) ==
    /\ LET r == Registered(heap, states, a) IN
        /\ heap' = r.heap
        /\ states' = r.states
        /\ Returned([NoTool EXCEPT !.op = "get_agent_state", !.agent = a,
                                   !.result = r.heap[r.states[a]]])
    /\ UNCHANGED <<messages, global_context, available_agents, pending>>

\* update_status: if current_task is not None: state.current_task = current_task
NewTaskAlways(old, task) == task

NewTask(old, task) == IF task # None THEN task ELSE old

\* StateManager.update_status(a, status, task); task = None: not provided
UpdateStatusCall(a, status, task) ==
    /\ LET r == Registered(heap, states, a) IN
        /\ heap' = [r.heap EXCEPT ![r.states[a]].status = status,
                                  ![r.states[a]].current_task = NewTask(@, task)]
        /\ states' = r.states
    /\ Returned([NoTool EXCEPT !.op = "update_status", !.agent = a,
                               !.status = status, !.task = task])
    /\ UNCHANGED <<messages, global_context, available_agents, pending>>

\* StateManager.add_result(a, x)
AddResultCall(a, x) ==
    /\ LET r == Registered(heap, states, a) IN
        /\ heap' = [r.heap EXCEPT ![r.states[a]].results = Append(@, x)]
        /\ states' = r.states
    /\ Returned([NoTool EXCEPT !.op = "add_result", !.agent = a, !.content = x])
    /\ UNCHANGED <<messages, global_context, available_agents, pending>>

\* self._messages after send_message(from, to, content)
Sent(msgs, from, to, content) ==
    Put(msgs, to, Append(IF to \in DOMAIN msgs THEN msgs[to] ELSE <<>>,
                         Message(from, to, content)))

\* StateManager.send_message(from, to, content)
SendMessageCall(from, to, content) ==
    /\ messages' = Sent(messages, from, to, content)
    /\ pending' = Put(pending, to,
                      Append(Pending(to), [from |-> from, content |-> content]))
    /\ Returned([NoTool EXCEPT !.op = "send_message", !.agent = to, !.from = from,
                               !.content = content])
    /\ UNCHANGED <<heap, states, global_context, available_agents>>

\* get_messages: if clear: self._messages[agent_name].clear()
DrainedAlways(box, clear) == <<>>

Drained(box, clear) == IF clear THEN <<>> ELSE box

\* StateManager.get_messages(a, clear)
GetMessagesCall(a, clear) ==
    /\ messages' = Put(messages, a, Drained(Mailbox(a), clear))
    /\ pending' = IF clear THEN Put(pending, a, <<>>) ELSE pending
    /\ Returned([NoTool EXCEPT !.op = "get_messages", !.agent = a, !.clear = clear,
                               !.result = [i \in 1..Len(Mailbox(a)) |->
                                              MessageDict(Mailbox(a)[i])]])
    /\ UNCHANGED <<heap, states, global_context, available_agents>>

\* what a tool returns: json.dumps of a dict, or a plain sentence
Json(dict) == [json |-> TRUE, keys |-> DOMAIN dict, dict |-> dict]

Text(sentence) == [json |-> FALSE, keys |-> {}, text |-> sentence]

\* CoordinatorAgent.get_tools.delegate_task(a, task)
DelegateTaskCall(a, task) ==
    /\ IF a \notin available_agents
       THEN /\ Returned([NoTool EXCEPT !.op = "delegate_task", !.agent = a,
                                       !.task = task, !.known = FALSE,
                                       !.result = Text("Error: Agent not found")])
            /\ UNCHANGED <<heap, states, messages, pending>>
       ELSE /\ messages' = Sent(messages, Coordinator, a, Delegation(task))
            /\ pending' = Put(pending, a,
                              Append(Pending(a), [from |-> Coordinator,
                                                  content |-> Delegation(task)]))
            /\ LET r == Registered(heap, states, a) IN
                /\ heap' = [r.heap EXCEPT ![r.states[a]].status = "working",
                                          ![r.states[a]].current_task =
                                              NewTask(@, task)]
                /\ states' = r.states
            /\ Returned([NoTool EXCEPT !.op = "delegate_task", !.agent = a,
                                       !.task = task,
                                       !.result = Text("Task delegated")])
    /\ UNCHANGED <<global_context, available_agents>>

\* CoordinatorAgent.get_tools.get_agent_status(a)
GetAgentStatusCall(a) ==
    /\ IF a \notin available_agents
       THEN /\ Returned([NoTool EXCEPT !.op = "get_agent_status", !.agent = a,
                            !.known = FALSE,
                            !.result = Json([error |-> "Agent not found"])])
            /\ UNCHANGED <<heap, states>>
       ELSE LET r == Registered(heap, states, a)
                state == r.heap[r.states[a]]
            IN  /\ heap' = r.heap
                /\ states' = r.states
                /\ Returned([NoTool EXCEPT !.op = "get_agent_status", !.agent = a,
                                !.result = Json([agent |-> a, status |-> state.status,
                                    current_task |-> state.current_task,
                                    results_count |-> Len(state.results)])])
    /\ UNCHANGED <<messages, global_context, available_agents, pending>>

\* CoordinatorAgent.get_tools.get_agent_results(a)
GetAgentResultsCall(a) ==
    /\ IF a \notin available_agents
       THEN /\ Returned([NoTool EXCEPT !.op = "get_agent_results", !.agent = a,
                            !.known = FALSE,
                            !.result = Json([error |-> "Agent not found"])])
            /\ UNCHANGED <<heap, states>>
       ELSE LET r == Registered(heap, states, a)
                state == r.heap[r.states[a]]
            IN  /\ heap' = r.heap
                /\ states' = r.states
                /\ Returned([NoTool EXCEPT !.op = "get_agent_results", !.agent = a,
                                !.result = Json([agent |-> a,
                                                 results |-> state.results])])
    /\ UNCHANGED <<messages, global_context, available_agents, pending>>

\* synthesize_results' loop: get_agent_state of every listed name that is in
\* self.available_agents
RECURSIVE RegisteredAll(_, _, _)
RegisteredAll(h, st, names) ==
    IF names = <<>> THEN [heap |-> h, states |-> st]
    ELSE LET r == IF Head(names) \in available_agents
                  THEN Registered(h, st, Head(names))
                  ELSE [heap |-> h, states |-> st]
         IN  RegisteredAll(r.heap, r.states, Tail(names))

\* CoordinatorAgent.get_tools.synthesize_results(names, prompt); names is the
\* list the comma-separated argument splits into
SynthesizeResultsCall(names) ==
    /\ LET r == RegisteredAll(heap, states, names) IN
        /\ heap' = r.heap
        /\ states' = r.states
        /\ Returned([NoTool EXCEPT !.op = "synthesize_results", !.names = names,
                        !.known = (Range(names) \subseteq available_agents),
                        !.result = Json([synthesis_prompt |-> "prompt",
                            agent_results |->
                                [a \in Range(names) \cap available_agents |->
                                    r.heap[r.states[a]].results],
                            note |-> "Use this information"])])
    /\ UNCHANGED <<messages, global_context, available_agents, pending>>

\* ------------------------------------- CodeGenerationAgent.generate_code
\* AgentConfig.code_gen_name
CodeGen == "code_generation_agent"

\* AgentConfig.code_gen_supported_languages
SupportedLanguages == {"python", "javascript", "typescript", "go", "java"}

\* the languages a caller asks for
Languages == {"python", "Python", "GO", "rust", "Rust"}

\* str.lower() on the strings above
Lower(str) ==
    CASE str = "Python" -> "python"
      [] str = "GO" -> "go"
      [] str = "Rust" -> "rust"
      [] OTHER -> str

\* language.lower() in [lang.lower() for lang in supported]
IsSupportedAny(language) == TRUE

IsSupported(language) == Lower(language) \in {Lower(lang) : lang \in SupportedLanguages}

\* generate_code(language, description)
GenerateCodeCall(language) ==
    /\ IF ~IsSupported(language)
       THEN /\ Returned([NoTool EXCEPT !.op = "generate_code", !.agent = CodeGen,
                            !.language = language, !.known = FALSE,
                            !.result = Json([error |-> "Language not supported"])])
            /\ UNCHANGED <<heap, states>>
       ELSE LET r == Registered(heap, states, CodeGen) IN
            /\ heap' = [r.heap EXCEPT
                   ![r.states[CodeGen]].data =
                       Put(@, "last_generated_language", language),
                   ![r.states[CodeGen]].results =
                       Append(@, [type |-> "code_generation", language |-> language])]
            /\ states' = r.states
            /\ Returned([NoTool EXCEPT !.op = "generate_code", !.agent = CodeGen,
                            !.language = language,
                            !.result = Json([language |-> language,
                                             code |-> "generated"])])
    /\ UNCHANGED <<messages, global_context, available_agents, pending>>

\* ------------------------------------ the tools of the specialized agents
\* AgentConfig.research_name, AgentConfig.data_analysis_name
Research == "research_agent"

DataAnalysis == "data_analysis_agent"

Specialized == {Research, CodeGen, DataAnalysis}

\* state.data[key] = value
WithData(state, key, value) == [state EXCEPT !.data = Put(@, key, value)]

\* state.results.append(result)
WithResultCompleted(state, result) ==
    [state EXCEPT !.results = Append(@, result), !.status = "completed"]

WithResult(state, result) == [state EXCEPT !.results = Append(@, result)]

\* StateManager.set(a, key, value)
SetCall(a, key, value) ==
    /\ LET r == Registered(heap, states, a) IN
        /\ heap' = [r.heap EXCEPT ![r.states[a]] = WithData(@, key, value)]
        /\ states' = r.states
    /\ Returned([NoTool EXCEPT !.op = "set", !.agent = a, !.content = key])
    /\ UNCHANGED <<messages, global_context, available_agents, pending>>

\* StateManager.set(a, key, value) for a name that has an AgentState
SetKnownCall(a, key, value) == a \in DOMAIN states /\ SetCall(a, key, value)

\* StateManager.get(a, key): state.data.get(key)
GetCall(a, key) ==
    /\ LET r == Registered(heap, states, a) IN
        /\ heap' = r.heap
        /\ states' = r.states
        /\ Returned([NoTool EXCEPT !.op = "get", !.agent = a, !.content = key,
                                   !.result = DictGet(r.heap[r.states[a]].data, key)])
    /\ UNCHANGED <<messages, global_context, available_agents, pending>>

\* StateManager.reset()
ResetCall ==
    /\ states' = EmptyMap
    /\ messages' = EmptyMap
    /\ global_context' = EmptyMap
    /\ pending' = [a \in DOMAIN pending |-> <<>>]
    /\ Returned([NoTool EXCEPT !.op = "reset"])
    /\ UNCHANGED <<heap, available_agents>>

\* StateManager.get_all_agent_states(): self._states.copy()
GetAllAgentStatesCall ==
    /\ Returned([NoTool EXCEPT !.op = "get_all_agent_states",
                               !.result = StatesCopy(states)])
    /\ UNCHANGED <<heap, states, messages, global_context, available_agents,
                   pending>>

\* a tool of a specialized agent: the key it hands to self.update_state and
\* the "type" of the result it hands to add_result, None where it makes no
\* such call
ToolOf(agent, name, key, type) ==
    [agent |-> agent, name |-> name, key |-> key, type |-> type]

\* ResearchAgent.get_tools
ResearchTools ==
    {ToolOf(Research, "web_search", "last_search_query", "search"),
     ToolOf(Research, "gather_information", "current_research_topic",
            "information_gathering"),
     ToolOf(Research, "verify_information", None, "verification"),
     ToolOf(Research, "synthesize_research", None, "synthesis"),
     ToolOf(Research, "get_current_knowledge", None, None)}

\* CodeGenerationAgent.get_tools, but for generate_code
CodeGenerationTools ==
    {ToolOf(CodeGen, "review_code", None, "code_review"),
     ToolOf(CodeGen, "generate_tests", None, "test_generation"),
     ToolOf(CodeGen, "refactor_code", None, "code_refactoring"),
     ToolOf(CodeGen, "explain_code", None, None)}

\* DataAnalysisAgent.get_tools
DataAnalysisTools ==
    {ToolOf(DataAnalysis, "analyze_dataset", None, "dataset_analysis"),
     ToolOf(DataAnalysis, "perform_statistical_analysis", None,
            "statistical_analysis"),
     ToolOf(DataAnalysis, "identify_patterns", None, "pattern_identification"),
     ToolOf(DataAnalysis, "generate_visualization", None, "visualization"),
     ToolOf(DataAnalysis, "clean_data", None, "data_cleaning"),
     ToolOf(DataAnalysis, "generate_report", None, "report_generation")}

SpecializedTools == ResearchTools \cup CodeGenerationTools \cup DataAnalysisTools

\* one of these tools is called: self.update_state(key, ...), then
\* self.state_manager.add_result(self.name, {"type": type, ...}), then
\* return json.dumps(...)
SpecializedToolCall(tl) ==
    /\ LET a == tl.agent
           r == IF tl.key = None /\ tl.type = None
                THEN [heap |-> heap, states |-> states]
                ELSE Registered(heap, states, a)
           set == IF tl.key = None THEN r.heap
                  ELSE [r.heap EXCEPT ![r.states[a]] = WithData(@, tl.key, "value")]
       IN  /\ heap' = IF tl.type = None THEN set
                      ELSE [set EXCEPT ![r.states[a]] =
                                WithResult(@, [type |-> tl.type])]
           /\ states' = r.states
    /\ Returned([NoTool EXCEPT !.op = tl.name, !.agent = tl.agent,
                               !.result = Json([tool |-> tl.name])])
    /\ UNCHANGED <<messages, global_context, available_agents, pending>>

\* ------------------------------ retry_with_backoff, statement by statement
\* the exception classes func raises
Exceptions == {"ValueError", "KeyError"}

\* RetryConfig(max_attempts=n, jitter=j, retry_on_exceptions=classes); the
\* other fields at their defaults, the delays in ticks
RetryConfig(n, j, classes) ==
    [max_attempts |-> n, initial_delay |-> 2, max_delay |-> 120,
     exponential_base |-> 2, jitter |-> j, retry_on_exceptions |-> classes]

\* for attempt in range(config.max_attempts)
InRangeInclusive(attempt, config) == attempt <= config.max_attempts

InRange(attempt, config) == attempt < config.max_attempts

\* if attempt < config.max_attempts - 1
MayRetry(attempt, config) == attempt < config.max_attempts - 1

\* last_exception = None
NoException == <<None, -1>>

\* history: what the wrapper did, in order
Event(ev, attempt, what) == [ev |-> ev, attempt |-> attempt, what |-> what]

\* the wrapper of retry_with_backoff(config, on_retry)(func) is called
RW_Call(config, on_retry) ==
    /\ wrapper.kind = "none" \/ (wrapper.kind = "retry" /\ wrapper.pc = "done")
    /\ wrapper' = [kind |-> "retry", config |-> config, on_retry |-> on_retry,
                   pc |-> "for", attempt |-> 0, last_exception |-> NoException,
                   delay |-> 0, calls |-> 0, trace |-> <<>>,
                   outcome |-> "running", exception |-> NoException]
    /\ UNCHANGED <<rlVars, notWrap>>

\* last_exception = None; for attempt in range(config.max_attempts):
RW_For ==
    /\ wrapper.kind = "retry"
    /\ wrapper.pc = "for"
    /\ wrapper' = [wrapper EXCEPT !.pc = IF InRange(wrapper.attempt, wrapper.config)
                                         THEN "try" ELSE "after"]
    /\ UNCHANGED <<rlVars, notWrap>>

\* try: return func(*args, **kwargs); func returns, or raises x
\* except config.retry_on_exceptions as e: last_exception = e
RW_Try(x) ==
    /\ wrapper.kind = "retry"
    /\ wrapper.pc = "try"
    /\ LET w == [wrapper EXCEPT !.calls = @ + 1,
                                !.trace = Append(@, Event("func", wrapper.attempt, x))]
       IN  wrapper' =
               IF x = None
               THEN [w EXCEPT !.pc = "done", !.outcome = "returned"]
               ELSE IF x \in wrapper.config.retry_on_exceptions
               THEN [w EXCEPT !.pc = "except",
                              !.last_exception = <<x, wrapper.attempt>>]
               ELSE [w EXCEPT !.pc = "done", !.outcome = "raised",
                              !.exception = <<x, wrapper.attempt>>]
    /\ UNCHANGED <<rlVars, notWrap>>

\* if attempt < config.max_attempts - 1:
\*     delay = calculate_backoff_delay(attempt, config)
\* else: logger.error(...), and the loop goes on
RW_Except(r) ==
    /\ wrapper.kind = "retry"
    /\ wrapper.pc = "except"
    /\ IF MayRetry(wrapper.attempt, wrapper.config)
       THEN /\ r \in 0..(IF wrapper.config.jitter
                         THEN BackoffBase(wrapper.attempt, wrapper.config) \div 2
                         ELSE 0)
            /\ wrapper' = [wrapper EXCEPT
                   !.delay = CalculateBackoffDelay(wrapper.attempt, wrapper.config, r),
                   !.pc = IF wrapper.on_retry THEN "on_retry" ELSE "sleep"]
       ELSE /\ r = 0
            /\ wrapper' = [wrapper EXCEPT !.attempt = @ + 1, !.pc = "for"]
    /\ UNCHANGED <<rlVars, notWrap>>

\* if on_retry: on_retry(attempt, e)
RW_OnRetry ==
    /\ wrapper.kind = "retry"
    /\ wrapper.pc = "on_retry"
    /\ wrapper' = [wrapper EXCEPT
           !.trace = Append(@, Event("on_retry", wrapper.attempt,
                                     wrapper.last_exception[1])),
           !.pc = "sleep"]
    /\ UNCHANGED <<rlVars, notWrap>>

\* time.sleep(delay), and the loop goes on; the wrapper reads no clock
RW_Sleep ==
    /\ wrapper.kind = "retry"
    /\ wrapper.pc = "sleep"
    /\ wrapper' = [wrapper EXCEPT
           !.trace = Append(@, Event("sleep", wrapper.attempt, wrapper.delay)),
           !.attempt = @ + 1,
           !.pc = "for"]
    /\ UNCHANGED <<rlVars, notWrap>>

\* if last_exception: raise last_exception
\* raise AgentError("Retry failed with no exception captured")
RW_After ==
    /\ wrapper.kind = "retry"
    /\ wrapper.pc = "after"
    /\ wrapper' = [wrapper EXCEPT
           !.pc = "done",
           !.outcome = "raised",
           !.exception = IF wrapper.last_exception # NoException
                         THEN wrapper.last_exception
                         ELSE <<"AgentError", -1>>]
    /\ UNCHANGED <<rlVars, notWrap>>

\* the steps of the wrapper once it is called
RW_Step ==
    \/ RW_For
    \/ \E x \in Exceptions \cup {None} : RW_Try(x)
    \/ \E r \in 0..(BackoffBase(MaxAttempts, RetryConfig(0, TRUE, {})) \div 2) :
        RW_Except(r)
    \/ RW_OnRetry
    \/ RW_Sleep
    \/ RW_After

\* ----------------------------------- validated_tool, wrapper by wrapper
\* validated_tool(input_constraints, output_constraints, rate_limit_config,
\* timeout_seconds): whether each constraint is given, and the seconds (0 for
\* None)
ToolConfig(i, o, r, s) ==
    [input_constraints |-> i, output_constraints |-> o, rate_limit_config |-> r,
     timeout_seconds |-> s]

\* decorated = wrapper(decorated), if the wrapper is asked for
Wrap(name, on, decorated) == IF on THEN <<name>> \o decorated ELSE decorated

\* decorator(func): the wrappers around func, the outermost first
DecoratedRateLimitOutermost(config) ==
    Wrap("rate_limit", config.rate_limit_config,
        Wrap("validate_tool_input", config.input_constraints,
            Wrap("validate_tool_output", config.output_constraints,
                Wrap("timeout", config.timeout_seconds # 0, <<>>))))

Decorated(config) ==
    Wrap("validate_tool_input", config.input_constraints,
        Wrap("validate_tool_output", config.output_constraints,
            Wrap("rate_limit", config.rate_limit_config,
                Wrap("timeout", config.timeout_seconds # 0, <<>>))))

\* the decorated function before its first call
Tool(config) ==
    [kind |-> "validated_tool", config |-> config, stack |-> Decorated(config),
     pc |-> "done", depth |-> 0, valid |-> TRUE, result |-> None,
     before |-> [kind |-> "none"], tokens |-> <<0, 0>>, wake |-> 0,
     trace |-> <<>>, outcome |-> "none", exception |-> None, calls |-> 0]

\* history: what a wrapper or func did
Did(stage, what) == [stage |-> stage, what |-> what]

\* the wrapper at depth d is entered
At(name) ==
    /\ wrapper.kind = "validated_tool"
    /\ wrapper.pc = "enter"
    /\ wrapper.depth <= Len(wrapper.stack)
    /\ wrapper.stack[wrapper.depth] = name

\* the wrapper at depth d has its inner call back
Back(name) ==
    /\ wrapper.kind = "validated_tool"
    /\ wrapper.pc = "leave"
    /\ wrapper.depth >= 1
    /\ wrapper.stack[wrapper.depth] = name

\* decorated = validated_tool(...)(func), at time now: rate_limit(config)
\* builds its RateLimiter
VT_Decorate(config, rate, burst, wait) ==
    /\ wrapper.kind = "none"
    /\ wrapper' = Tool(config)
    /\ limiter' = IF config.rate_limit_config
                  THEN RateLimiter(rate, burst, wait, now)
                  ELSE limiter
    /\ UNCHANGED <<returned, raised, acqLog, notWrap>>

\* the decorated function is called, with arguments that pass
\* validator.validate_input or not
VT_Call(valid) ==
    /\ wrapper.kind = "validated_tool"
    /\ wrapper.pc = "done"
    /\ wrapper.calls < MaxCalls
    /\ wrapper' = [wrapper EXCEPT !.pc = "enter", !.depth = 1, !.valid = valid,
                                  !.result = None, !.before = limiter,
                                  !.tokens = <<0, 0>>, !.trace = <<>>,
                                  !.outcome = "running", !.exception = None,
                                  !.calls = @ + 1]
    /\ UNCHANGED <<rlVars, notWrap>>

\* validate_tool_input's wrapper: validator.validate_input on every argument,
\* then func(*args, **kwargs)
VT_Input ==
    /\ At("validate_tool_input")
    /\ wrapper' =
        IF wrapper.valid
        THEN [wrapper EXCEPT !.trace = Append(@, Did("validate_input", "passed")),
                             !.depth = @ + 1]
        ELSE [wrapper EXCEPT !.trace = Append(@, Did("validate_input", "rejected")),
                             !.pc = "done", !.outcome = "raised",
                             !.exception = "ValidationError"]
    /\ UNCHANGED <<rlVars, notWrap>>

\* validate_tool_output's wrapper: result = func(*args, **kwargs)
VT_OutputCall ==
    /\ At("validate_tool_output")
    /\ wrapper' = [wrapper EXCEPT !.depth = @ + 1]
    /\ UNCHANGED <<rlVars, notWrap>>

\* rate_limit's wrapper: limiter.acquire(), up to its return, its raise or
\* the start of its sleep
VT_Acquire ==
    /\ At("rate_limit")
    /\ LockFree(limiter)
    /\ LET l == AddTokens(limiter, now) IN
        IF HasTokens(l, 1)
        THEN /\ limiter' = [l EXCEPT !.tokens = @ - Period]
             /\ returned' = returned + 1
             /\ acqLog' = Append(acqLog,
                    AcquireRecord(limiter, limiter', 1, "returned", <<0, 1>>))
             /\ wrapper' = [wrapper EXCEPT
                    !.trace = Append(@, Did("acquire", "returned")),
                    !.tokens = <<l.tokens, limiter'.tokens>>,
                    !.depth = @ + 1]
             /\ UNCHANGED raised
        ELSE IF ~l.wait_on_limit
        THEN /\ limiter' = l
             /\ raised' = raised + 1
             /\ acqLog' = Append(acqLog,
                    AcquireRecord(limiter, limiter', 1, "raised", RetryAfter(l, 1)))
             /\ wrapper' = [wrapper EXCEPT
                    !.trace = Append(@, Did("acquire", "raised")),
                    !.pc = "done", !.outcome = "raised",
                    !.exception = "RateLimitError"]
             /\ UNCHANGED returned
        ELSE /\ limiter' = [l EXCEPT !.lock = 1]
             /\ acqLog' = Append(acqLog,
                    AcquireRecord(limiter, limiter', 1, "sleeping", <<0, 1>>))
             /\ wrapper' = [wrapper EXCEPT !.pc = "sleep",
                                           !.tokens = <<l.tokens, l.tokens>>,
                                           !.wake = now + WaitTime(l, 1)]
             /\ UNCHANGED <<returned, raised>>
    /\ UNCHANGED notWrap

\* time.sleep(wait_time) is over: self.tokens = 0, acquire returns, and
\* func(*args, **kwargs)
VT_AcquireWake ==
    /\ wrapper.kind = "validated_tool"
    /\ wrapper.pc = "sleep"
    /\ now >= wrapper.wake
    /\ limiter' = [limiter EXCEPT !.tokens = 0, !.lock = 0]
    /\ returned' = returned + 1
    /\ acqLog' = [acqLog EXCEPT ![Len(acqLog)].outcome = "waited",
                                ![Len(acqLog)].after = limiter'.tokens]
    /\ wrapper' = [wrapper EXCEPT !.trace = Append(@, Did("acquire", "waited")),
                                  !.tokens = <<wrapper.tokens[1], 0>>,
                                  !.pc = "enter", !.depth = @ + 1]
    /\ UNCHANGED <<raised, notWrap>>

\* timeout's wrapper: signal.signal, signal.alarm(int(seconds)), then
\* result = func(*args, **kwargs)
VT_Alarm ==
    /\ At("timeout")
    /\ wrapper' = [wrapper EXCEPT !.trace = Append(@, Did("alarm", "set")),
                                  !.depth = @ + 1]
    /\ UNCHANGED <<rlVars, notWrap>>

\* what func does once it is invoked: it returns a result that passes
\* validator.validate_output or one that does not, it raises, or the alarm
\* goes off in it
Results == {"valid", "invalid"}

Outcomes == Results \cup {"ValueError", "TimeoutError"}

\* func itself runs
VT_Func(x) ==
    /\ wrapper.kind = "validated_tool"
    /\ wrapper.pc = "enter"
    /\ wrapper.depth = Len(wrapper.stack) + 1
    /\ x = "TimeoutError" => Count(wrapper.stack, "timeout") > 0
    /\ wrapper' =
        IF x \in Results
        THEN [wrapper EXCEPT !.trace = Append(@, Did("func", "returned")),
                             !.result = x, !.pc = "leave", !.depth = @ - 1]
        ELSE [wrapper EXCEPT !.trace = Append(@, Did("func", "raised")),
                             !.pc = "done", !.outcome = "raised",
                             !.exception = x]
    /\ UNCHANGED <<rlVars, notWrap>>

\* timeout's wrapper, finally: signal.alarm(0), signal.signal; return result
VT_AlarmOff ==
    /\ Back("timeout")
    /\ wrapper' = [wrapper EXCEPT !.trace = Append(@, Did("alarm", "off")),
                                  !.depth = @ - 1]
    /\ UNCHANGED <<rlVars, notWrap>>

\* rate_limit's and validate_tool_input's wrappers: return func(...)
VT_Return ==
    /\ Back("rate_limit") \/ Back("validate_tool_input")
    /\ wrapper' = [wrapper EXCEPT !.depth = @ - 1]
    /\ UNCHANGED <<rlVars, notWrap>>

\* validate_tool_output's wrapper: validator.validate_output(result);
\* return result
VT_Output ==
    /\ Back("validate_tool_output")
    /\ wrapper' =
        IF wrapper.result = "valid"
        THEN [wrapper EXCEPT !.trace = Append(@, Did("validate_output", "passed")),
                             !.depth = @ - 1]
        ELSE [wrapper EXCEPT !.trace = Append(@, Did("validate_output", "rejected")),
                             !.pc = "done", !.outcome = "raised",
                             !.exception = "ValidationError"]
    /\ UNCHANGED <<rlVars, notWrap>>

\* the outermost wrapper has returned
VT_Done ==
    /\ wrapper.kind = "validated_tool"
    /\ wrapper.pc = "leave"
    /\ wrapper.depth = 0
    /\ wrapper' = [wrapper EXCEPT !.pc = "done", !.outcome = "returned"]
    /\ UNCHANGED <<rlVars, notWrap>>

\* the steps of the decorated function once it is called
VT_Step ==
    \/ VT_Input
    \/ VT_OutputCall
    \/ VT_Acquire
    \/ VT_AcquireWake
    \/ VT_Alarm
    \/ \E x \in Outcomes : VT_Func(x)
    \/ VT_AlarmOff
    \/ VT_Return
    \/ VT_Output
    \/ VT_Done

\* ---------------------------------------------------------- specifications
InitThreads ==
    /\ pc = [t \in Threads |-> "idle"]
    /\ call = [t \in Threads |-> NoCall]
    /\ loc = [t \in Threads |-> NoLoc]
    /\ ncalls = [t \in Threads |-> 0]

InitHistory ==
    /\ added = [a \in AgentNames |-> {}]
    /\ sentLog = {}
    /\ returnedLog = <<>>
    /\ seen = [a \in AgentNames |-> {}]
    /\ report = <<>>

\* ErrorRecoveryHandler.__init__ with threshold k and timeout d
InitHandler(k, d) ==
    /\ failure_counts = EmptyMap
    /\ circuit_open_until = EmptyMap
    /\ error_history = <<>>
    /\ circuit_breaker_threshold = k
    /\ circuit_breaker_timeout = d
    /\ nops = 0
    /\ last = NoLast
    /\ failsSince = [o \in Operations |-> 0]
    /\ streak = [o \in Operations |-> 0]
    /\ reachedAt = [o \in Operations |-> -1]
    /\ failAt = [o \in Operations |-> -1]
    /\ recorded = [o \in Operations |-> 0]

\* the parts of the system a specification does not exercise
HandlerUnused == now = 0 /\ InitHandler(1, 1)

\* history: no call has been made one after the other
ToolsUnused ==
    /\ tool = NoTool
    /\ ntools = 0
    /\ pending = [a \in {} |-> <<>>]

\* no decorated or wrapped function has been called
NoWrapper == [kind |-> "none"]

WrappersUnused == wrapper = NoWrapper

\* no rate_limit decorator has been applied
LimiterUnused ==
    /\ limiter = [kind |-> "none"]
    /\ returned = 0
    /\ raised = 0
    /\ acqLog = <<>>

\* StateManager.__init__
InitStateManager ==
    /\ heap = <<>>
    /\ states = EmptyMap
    /\ messages = EmptyMap
    /\ global_context = EmptyMap
    /\ held = [t \in Threads |-> 0]

\* Threads that call add_result on a fresh StateManager.
InitAddResult ==
    /\ InitStateManager
    /\ available_agents = {}
    /\ InitThreads
    /\ InitHistory
    /\ HandlerUnused
    /\ LimiterUnused
    /\ ToolsUnused
    /\ WrappersUnused

NextAddResult ==
    \E t \in Threads :
        \/ \E a \in AgentNames : CallAddResult(t, a)
        \/ AddResult(t)
        \/ GetAgentState(t)

SpecAddResult == InitAddResult /\ [][NextAddResult]_vars

\* The results list of the AgentState that self._states names for a
ResultsOf(a) == IF a \in DOMAIN states THEN heap[states[a]].results ELSE <<>>

\* C1: the add_result calls that have returned on an agent are exactly the
\* entries of its results list, each once: no update is lost and none evicted.
C1_NoLostResult ==
    \A a \in AgentNames :
        /\ Len(ResultsOf(a)) = Cardinality(added[a])
        /\ \A x \in added[a] : Count(ResultsOf(a), x) = 1

\* Every thread has made all its calls on one agent, and all have returned.
C1_Witness ==
    \E a \in AgentNames :
        /\ \A t \in Threads : pc[t] = "idle" /\ ncalls[t] >= 1
        /\ Cardinality(added[a]) = MaxCalls
        /\ Len(ResultsOf(a)) = MaxCalls

\* Threads that send to and drain the mailboxes of a fresh StateManager.
InitMailbox ==
    /\ InitStateManager
    /\ available_agents = {}
    /\ InitThreads
    /\ InitHistory
    /\ HandlerUnused
    /\ LimiterUnused
    /\ ToolsUnused
    /\ WrappersUnused

NextMailbox ==
    \E t \in Threads :
        \/ \E from \in Senders, to \in AgentNames : CallSendMessage(t, from, to)
        \/ \E a \in AgentNames : CallGetMessages(t, a, TRUE)
        \/ SendMessage(t)
        \/ GetMessages(t)

SpecMailbox == InitMailbox /\ [][NextMailbox]_vars

\* The messages now retained in a mailbox, as (recipient, content)
Retained(a) == [i \in 1..Len(Mailbox(a)) |-> [to |-> a, content |-> Mailbox(a)[i].content]]

\* No clearing get_messages call is between its copy and its return
NoDrainInFlight == \A t \in Threads : pc[t] \notin {"gm_clear", "gm_ret"}

\* C2: whenever no clearing call is in flight, every message sent so far has
\* either been returned by exactly one clearing get_messages call or is still
\* in its recipient's mailbox, never both and never neither; and nothing is
\* returned or retained that was not sent.
C2_ReturnedXorRetained ==
    NoDrainInFlight =>
        /\ \A m \in sentLog : Count(returnedLog, m) + Count(Retained(m.to), m) = 1
        /\ Range(returnedLog) \subseteq sentLog
        /\ \A a \in AgentNames : Range(Retained(a)) \subseteq sentLog

\* One message has been returned by a clearing call while another, sent to the
\* same mailbox, is retained.
C2_Witness ==
    /\ NoDrainInFlight
    /\ \E a \in AgentNames :
        /\ \E i \in 1..Len(returnedLog) : returnedLog[i].to = a
        /\ Len(Mailbox(a)) > 0

\* A coordinator whose specialized agents were registered by
\* register_specialized_agent (coordinator_agent.py:51-59), then threads that
\* delegate, update, add results and ask for the status.
InitStatus ==
    /\ \E reg \in (SUBSET AgentNames) \ {{}} :
        /\ available_agents = reg
        /\ \E order \in [1..Cardinality(reg) -> reg] :
            /\ \A i, j \in DOMAIN order : i # j => order[i] # order[j]
            /\ heap = [i \in DOMAIN order |-> AgentState(order[i])]
            /\ states = [a \in reg |-> CHOOSE i \in DOMAIN order : order[i] = a]
        /\ seen = [a \in AgentNames |-> IF a \in reg THEN {<<"idle", None, 0>>} ELSE {}]
    /\ messages = EmptyMap
    /\ global_context = EmptyMap
    /\ held = [t \in Threads |-> 0]
    /\ InitThreads
    /\ added = [a \in AgentNames |-> {}]
    /\ sentLog = {}
    /\ returnedLog = <<>>
    /\ report = <<>>
    /\ HandlerUnused
    /\ LimiterUnused
    /\ ToolsUnused
    /\ WrappersUnused

NextStatus ==
    \E t \in Threads :
        \/ \E a \in AgentNames, task \in Tasks : CallDelegateTask(t, a, task)
        \/ \E a \in AgentNames : CallGetAgentStatus(t, a)
        \/ \E a \in AgentNames : CallUpdateStatus(t, a, "completed", None)
        \/ \E a \in AgentNames : CallAddResult(t, a)
        \/ DT_Check(t)
        \/ SendMessage(t)
        \/ UpdateStatus(t)
        \/ AddResult(t)
        \/ GetAgentState(t)
        \/ GetAgentStatus(t)

SpecStatus == InitStatus /\ [][NextStatus]_vars

\* C3: the (status, current_task, results_count) that get_agent_status reports
\* for an agent is one the agent's state had at some instant.
C3_ReportWasAState ==
    \A i \in 1..Len(report) :
        ~report[i].error =>
            <<report[i].status, report[i].current_task, report[i].results_count>>
                \in seen[report[i].agent]

\* The parts of the StateManager a handler specification does not exercise
StateManagerUnused ==
    /\ InitStateManager
    /\ available_agents = {}
    /\ InitThreads
    /\ InitHistory
    /\ ToolsUnused
    /\ WrappersUnused

\* One ErrorRecoveryHandler with threshold k and timeout d, called from one
\* thread: every call runs to its end before the next.
InitBreaker ==
    /\ StateManagerUnused
    /\ LimiterUnused
    /\ now = 0
    /\ \E k \in 1..MaxThreshold : InitHandler(k, Timeout)

\* time passes between the handler's calls
BreakerTick == Tick /\ UNCHANGED <<ehVars, ehHist, notEH>>

NextBreaker ==
    \/ BreakerTick
    \/ \E op \in Operations : IsCircuitOpenCall(op)
    \/ \E op \in Operations : RecordFailureCall(op)
    \/ \E op \in Operations : RecordSuccessCall(op)
    \/ \E op \in Operations \cup {None}, rec \in BOOLEAN, fb \in Fallbacks,
          fails \in 0..RecoverRetryConfig.max_attempts :
            Recover(op, rec, fb, fails)

SpecBreaker == InitBreaker /\ [][NextBreaker]_vars

\* C7 (first part): once threshold failures of an operation have been
\* recorded with no reset in between, its circuit has an open-until entry.
\* C7 (second part): an is_circuit_open call on an operation with an entry
\* returns true, and changes nothing, when made before the open-until time;
\* made at or after it, it returns false, removes the entry and zeroes the
\* operation's failure count.
C7_OpenThenExpires ==
    /\ \A op \in Operations :
        failsSince[op] >= circuit_breaker_threshold => op \in DOMAIN circuit_open_until
    /\ (last.kind = "is_circuit_open" /\ last.hadEntry) =>
        IF last.wasOpen
        THEN /\ last.result = TRUE
             /\ last.operation \in DOMAIN circuit_open_until
             /\ FailureCount(failure_counts, last.operation) = last.countBefore
        ELSE /\ last.result = FALSE
             /\ last.operation \notin DOMAIN circuit_open_until
             /\ last.operation \in DOMAIN failure_counts
             /\ failure_counts[last.operation] = 0

\* A circuit that opened after threshold (2) failures has just been found
\* expired and reset by is_circuit_open.
C7_Witness ==
    /\ circuit_breaker_threshold = 2
    /\ last.kind = "is_circuit_open"
    /\ last.hadEntry
    /\ ~last.wasOpen
    /\ last.countBefore >= 2
    /\ last.result = FALSE
    /\ failure_counts[last.operation] = 0

\* C8: recover invokes func only for a recoverable error whose operation's
\* circuit is not open; otherwise func is not invoked and the result is the
\* fallback's (None when there is no fallback).
C8_FuncOnlyWhenClosed ==
    last.kind = "recover" =>
        /\ last.calls > 0 => (last.recoverable /\ ~last.wasOpen)
        /\ (~last.recoverable \/ last.wasOpen) =>
            /\ last.calls = 0
            /\ last.fallback = "none" => last.result = None
            /\ last.fallback = "ok" => last.result = "fallback_result"

\* A recoverable error met an open circuit: func was skipped, the fallback ran.
C8_Witness ==
    /\ last.kind = "recover"
    /\ last.recoverable
    /\ last.wasOpen
    /\ last.calls = 0
    /\ last.result = "fallback_result"

\* One ErrorRecoveryHandler driven through record_failure, record_success,
\* handle_error and is_circuit_open as time passes.
NextWindow ==
    \/ BreakerTick
    \/ \E op \in Operations :
        \/ IsCircuitOpenCall(op)
        \/ RecordFailureCall(op)
        \/ RecordSuccessCall(op)
    \/ \E op \in Operations \cup {None}, recoverable \in BOOLEAN,
          strategy \in RecoveryStrategy : HandleError(op, recoverable, strategy)

SpecWindow == InitBreaker /\ [][NextWindow]_vars

\* C9: an is_circuit_open call made exactly circuit_breaker_timeout after the
\* operation's count reached the threshold returns false, the failures recorded
\* since then all being earlier than the call.
C9_FixedWindow ==
    (/\ last.kind = "is_circuit_open"
     /\ last.atDeadline
     /\ failAt[last.operation] < now) => last.result = FALSE

\* C10: a recover call that retries invokes func between 1 and 3 times; when
\* every attempt fails it has invoked func 3 times, raised the operation's
\* failure count by exactly one and returned the fallback's result (None
\* without a fallback). threshold exhausted recover calls in a row leave the
\* circuit open until timeout after the last, and a recover call made before
\* then does not invoke func.
C10_BoundedRetryOneFailure ==
    /\ (last.kind = "recover" /\ last.recoverable /\ ~last.wasOpen) =>
        /\ last.calls \in 1..3
        /\ last.exhausted =>
            /\ last.calls = 3
            /\ last.operation # None =>
                   failure_counts[last.operation]
                       = (IF last.hadEntry THEN 0 ELSE last.countBefore) + 1
            /\ last.fallback = "none" => last.result = None
            /\ last.fallback = "ok" => last.result = "fallback_result"
        /\ ~last.exhausted => last.result = "func_result"
    /\ \A op \in Operations :
        streak[op] >= circuit_breaker_threshold =>
            /\ op \in DOMAIN circuit_open_until
            /\ circuit_open_until[op] = failAt[op] + circuit_breaker_timeout
    /\ (last.kind = "recover" /\ last.recoverable /\ last.within
            /\ last.streakBefore >= circuit_breaker_threshold) => last.calls = 0

\* After two exhausted recover calls on a handler of threshold 2, a third
\* call within the timeout returned without invoking func.
C10_Witness ==
    /\ circuit_breaker_threshold = 2
    /\ last.kind = "recover"
    /\ last.recoverable
    /\ last.within
    /\ last.streakBefore = 2
    /\ last.calls = 0

\* One ErrorRecoveryHandler shared by threads that call record_failure.
InitBreakerThreads ==
    /\ StateManagerUnused
    /\ LimiterUnused
    /\ now = 0
    /\ \E k \in 1..MaxThreshold : InitHandler(k, Timeout)

ThreadsTick == Tick /\ UNCHANGED <<ehVars, ehHist, notEH>>

NextBreakerThreads ==
    \/ ThreadsTick
    \/ \E t \in Threads :
        \/ \E op \in Operations : CallRecordFailure(t, op)
        \/ RecordFailure(t)

SpecBreakerThreads == InitBreakerThreads /\ [][NextBreakerThreads]_vars

\* C4: when no record_failure call is in flight, each operation's failure
\* count is the number of record_failure calls made on it, and its circuit is
\* open once that number has reached the threshold.
C4_NoLostFailure ==
    (\A t \in Threads : pc[t] = "idle") =>
        \A op \in Operations :
            /\ FailureCount(failure_counts, op) = recorded[op]
            /\ recorded[op] >= circuit_breaker_threshold
                   => op \in DOMAIN circuit_open_until

\* Threads that call a function decorated with a token-bucket rate_limit.
InitTokenBucket ==
    /\ StateManagerUnused
    /\ HandlerUnused
    /\ \E rate \in 1..MaxRate, burst \in 1..MaxBurst, wait \in BOOLEAN :
        limiter = RateLimiter(rate, burst, wait, 0)
    /\ returned = 0
    /\ raised = 0
    /\ acqLog = <<>>

LimiterTick == Tick /\ UNCHANGED <<thVars, rlVars, notRL>>

NextTokenBucket ==
    \/ LimiterTick
    \/ \E t \in Threads : Acquire(t, 1) \/ AcquireWake(t)

SpecTokenBucket == InitTokenBucket /\ [][NextTokenBucket]_vars

\* C5: with wait_on_limit, the acquire calls that have returned by time now
\* (the limiter was built at time 0) number at most
\* burst_size + now * (rate / period).
C5_RateWithinBudget ==
    limiter.wait_on_limit =>
        returned * Period <= limiter.max_tokens + now * limiter.rate

\* Threads that call a function decorated with a sliding-window rate_limit.
InitSlidingWindow ==
    /\ StateManagerUnused
    /\ HandlerUnused
    /\ \E n \in 1..MaxRate, wait \in BOOLEAN :
        limiter = SlidingWindowRateLimiter(n, wait)
    /\ returned = 0
    /\ raised = 0
    /\ acqLog = <<>>

WindowTick == Tick /\ UNCHANGED <<thVars, rlVars, notRL>>

NextSlidingWindow ==
    \/ WindowTick
    \/ \E t \in Threads : WindowAcquire(t) \/ WindowAcquireWake(t)

SpecSlidingWindow == InitSlidingWindow /\ [][NextSlidingWindow]_vars

\* C6: the recorded timestamps t with now - window_size <= t <= now number at
\* most max_requests (time passing only lowers that number, so it holds in
\* every state if it holds after every acquire that returns).
C6_WindowWithinLimit ==
    Cardinality({i \in 1..Len(limiter.requests) :
                    /\ now - limiter.window_size <= limiter.requests[i]
                    /\ limiter.requests[i] <= now}) <= limiter.max_requests

\* what a handler call may do to the counts and circuits of the operations
\* other than op: nothing
OthersUntouched(op) ==
    \A o \in Operations \ {op} :
        /\ (o \in DOMAIN failure_counts') = (o \in DOMAIN failure_counts)
        /\ FailureCount(failure_counts', o) = FailureCount(failure_counts, o)
        /\ (o \in DOMAIN circuit_open_until') = (o \in DOMAIN circuit_open_until)
        /\ o \in DOMAIN circuit_open_until =>
               circuit_open_until'[o] = circuit_open_until[o]

\* the circuit of op is opened, or opened anew, by this step
Opens(op) ==
    /\ op \in DOMAIN circuit_open_until'
    /\ op \in DOMAIN circuit_open_until =>
           circuit_open_until'[op] # circuit_open_until[op]

C11_Step ==
    nops' = nops + 1 =>
        /\ \A op \in Operations : FailureCount(failure_counts', op) = failsSince'[op]
        /\ last'.kind = "record_success" =>
               FailureCount(failure_counts', last'.operation) = 0
        /\ \A op \in Operations :
               Opens(op) => failsSince'[op] >= circuit_breaker_threshold
        /\ last'.kind \in {"record_failure", "record_success"} =>
               OthersUntouched(last'.operation)

\* C11: each operation's failure count is the number of failures recorded
\* for it since its last reset; record_success(op) leaves op's count at 0; a
\* call opens op's circuit only when at least threshold failures of op have
\* been recorded since op's last reset; record_failure(op) and
\* record_success(op) change the count and the circuit of no other operation.
C11_PerOperationConsecutive == [][C11_Step]_vars

\* Threshold 2: a failure, a success, then a failure of the same operation
\* leave its count at 1 and its circuit closed.
C11_Witness ==
    /\ circuit_breaker_threshold = 2
    /\ last.kind = "record_failure"
    /\ recorded[last.operation] = 2
    /\ failure_counts[last.operation] = 1
    /\ last.operation \notin DOMAIN circuit_open_until

\* One ErrorRecoveryHandler called from one thread with every method.
NextAudit ==
    \/ \E op \in Operations :
        \/ IsCircuitOpenCall(op)
        \/ RecordFailureCall(op)
        \/ RecordSuccessCall(op)
    \/ \E op \in Operations \cup {None}, strategy \in RecoveryStrategy :
          HandleError(op, TRUE, strategy)
    \/ \E op \in Operations \cup {None}, rec \in BOOLEAN,
          fails \in {0, RecoverRetryConfig.max_attempts} :
            Recover(op, rec, "none", fails)

SpecAudit == InitBreaker /\ [][NextAudit]_vars

C12_Step ==
    nops' = nops + 1 =>
        /\ Len(error_history') >= Len(error_history)
        /\ SubSeq(error_history', 1, Len(error_history)) = error_history
        /\ last'.kind = "handle_error" =>
            /\ Len(error_history') = Len(error_history) + 1
            /\ error_history'[Len(error_history')].recovery_strategy = last'.result
            /\ error_history'[Len(error_history')].operation = last'.operation
            /\ IF last'.result = "circuit_breaker" /\ last'.operation # None
               THEN /\ failure_counts'[last'.operation]
                           = FailureCount(failure_counts, last'.operation) + 1
                    /\ OthersUntouched(last'.operation)
               ELSE /\ failure_counts' = failure_counts
                    /\ circuit_open_until' = circuit_open_until

\* C12: no handler call shortens or rewrites error_history; handle_error
\* appends exactly one record, of its strategy and its context; it raises the
\* failure count of context.operation by one when the strategy is
\* CIRCUIT_BREAKER and leaves every count and circuit as it was otherwise.
C12_AppendOnlyAudit == [][C12_Step]_vars

\* A RETRY record followed by a CIRCUIT_BREAKER record that counted one failure.
C12_Witness ==
    /\ last.kind = "handle_error"
    /\ last.result = "circuit_breaker"
    /\ Len(error_history) = 2
    /\ error_history[1].recovery_strategy = "retry"
    /\ error_history[2].recovery_strategy = "circuit_breaker"
    /\ last.operation # None
    /\ failure_counts[last.operation] = 1

\* One thread that calls acquire(n) on a token-bucket RateLimiter (the lock
\* lets the calls of several threads run only one after the other).
NextBucket ==
    \/ LimiterTick
    \/ \E n \in 1..MaxTokens : Acquire(1, n)
    \/ AcquireWake(1)

SpecBucket == InitTokenBucket /\ [][NextBucket]_vars

\* the tokens the call r found after replenishment: what it had before plus
\* the time since the last update times the rate, capped at max_tokens
Available(r) ==
    Min(limiter.max_tokens, r.before + (r.at - r.last_update) * limiter.rate)

\* C13: without wait_on_limit, an acquire(n) that finds fewer than n tokens
\* after replenishment raises with retry_after = (n - tokens)*(period/rate),
\* which is positive, and leaves the replenished tokens undeducted; no other
\* acquire raises.  With requests_per_second=2 and burst_size=2, of calls
\* acquire(1) all made at time 0 the first two return and the third raises.
C13_RefusalWithoutDeduction ==
    ~limiter.wait_on_limit =>
        /\ \A i \in DOMAIN acqLog :
            LET r == acqLog[i] IN
                IF Available(r) < r.tokens * Period
                THEN /\ r.outcome = "raised"
                     /\ r.retry_after = <<r.tokens * Period - Available(r), limiter.rate>>
                     /\ r.retry_after[1] > 0
                     /\ r.after = Available(r)
                ELSE r.outcome = "returned"
        /\ (/\ limiter.rate = 2
            /\ limiter.max_tokens = 2 * Period
            /\ \A i \in DOMAIN acqLog : acqLog[i].tokens = 1 /\ acqLog[i].at = 0) =>
               \A i \in DOMAIN acqLog :
                   acqLog[i].outcome = IF i <= 2 THEN "returned" ELSE "raised"

\* requests_per_second=2, burst_size=2, wait_on_limit=False: the third
\* immediate acquire(1) was refused with retry_after one tick (0.5 s).
C13_Witness ==
    /\ ~limiter.wait_on_limit
    /\ limiter.rate = 2
    /\ limiter.max_tokens = 2 * Period
    /\ Len(acqLog) = 3
    /\ \A i \in DOMAIN acqLog : acqLog[i].tokens = 1 /\ acqLog[i].at = 0
    /\ acqLog[3].outcome = "raised"
    /\ acqLog[3].retry_after = <<2, 2>>
    /\ limiter.tokens = 0

\* C14: tokens is between 0 and max_tokens (burst_size) in every state and is
\* max_tokens before the first acquire; an acquire(n) that returns without
\* waiting found at least n tokens after the capped replenishment and
\* deducted exactly n; one that waited left tokens at 0.
C14_TokensWithinBucket ==
    /\ limiter.tokens >= 0
    /\ limiter.tokens <= limiter.max_tokens
    /\ acqLog = <<>> => limiter.tokens = limiter.max_tokens
    /\ \A i \in DOMAIN acqLog :
        LET r == acqLog[i] IN
            /\ r.outcome = "returned" =>
                /\ Available(r) >= r.tokens * Period
                /\ r.after = Available(r) - r.tokens * Period
            /\ r.outcome = "waited" => r.after = 0
            /\ r.outcome = "sleeping" => r.after = Available(r)

\* One acquire waited and left 0 tokens; a later one came after more time
\* than the bucket can hold and found it full, not overfull.
C14_Witness ==
    /\ \E i \in DOMAIN acqLog : acqLog[i].outcome = "waited" /\ acqLog[i].after = 0
    /\ \E i \in DOMAIN acqLog :
        /\ acqLog[i].outcome = "returned"
        /\ acqLog[i].before + (acqLog[i].at - acqLog[i].last_update) * limiter.rate
               > limiter.max_tokens
        /\ acqLog[i].after = limiter.max_tokens - acqLog[i].tokens * Period

\* A coordinator that has registered some of the agents, a code generation
\* agent, and the StateManager they share, called by one thread.
InitTools ==
    /\ \E reg \in SUBSET AgentNames :
        /\ available_agents = reg
        /\ \E order \in [1..Cardinality(reg) -> reg] :
            /\ \A i, j \in DOMAIN order : i # j => order[i] # order[j]
            /\ heap = [i \in DOMAIN order |-> AgentState(order[i])]
            /\ states = [a \in reg |-> CHOOSE i \in DOMAIN order : order[i] = a]
    /\ messages = EmptyMap
    /\ global_context = EmptyMap
    /\ held = [t \in Threads |-> 0]
    /\ InitThreads
    /\ InitHistory
    /\ HandlerUnused
    /\ LimiterUnused
    /\ ToolsUnused
    /\ WrappersUnused

NextTools ==
    \/ \E a \in AgentNames :
        \/ RegisterAgentCall(a)
        \/ GetAgentStateCall(a)
        \/ \E task \in {None, "write Y"} : UpdateStatusCall(a, "completed", task)
        \/ AddResultCall(a, "r")
        \/ \E content \in {"m1", "m2"} : SendMessageCall("research_agent", a, content)
        \/ \E clear \in BOOLEAN : GetMessagesCall(a, clear)
        \/ \E task \in Tasks : DelegateTaskCall(a, task)
        \/ GetAgentStatusCall(a)
        \/ GetAgentResultsCall(a)
    \/ \E names \in {<<"research_agent">>, <<"research_agent", "code_agent">>} :
        SynthesizeResultsCall(names)
    \/ \E language \in Languages : GenerateCodeCall(language)

SpecTools == InitTools /\ [][NextTools]_vars

\* every agent name a call can touch
AllNames == AgentNames \cup {CodeGen}

\* the step leaves the AgentState of a, or its absence, as it was
SameState(a) ==
    /\ (a \in DOMAIN states') = (a \in DOMAIN states)
    /\ a \in DOMAIN states => heap'[states'[a]] = heap[states[a]]

\* the mailbox of a after the step
MailboxAfter(a) == IF a \in DOMAIN messages' THEN messages'[a] ELSE <<>>

\* the step leaves every AgentState, mailbox and the global context as it was
SameStateManager ==
    /\ \A a \in AllNames : SameState(a) /\ MailboxAfter(a) = Mailbox(a)
    /\ DOMAIN states' = DOMAIN states
    /\ global_context' = global_context

\* the AgentState of a before the step; a fresh one if it had none
StateBefore(a) ==
    IF a \in DOMAIN states THEN heap[states[a]]
    ELSE [name |-> a, data |-> <<>>, status |-> "idle", current_task |-> None,
          results |-> <<>>]

C15_Step ==
    (tool'.op = "delegate_task" /\ tool'.agent \in available_agents) =>
        LET X == tool'.agent
            box == MailboxAfter(X)
        IN  /\ Len(box) = Len(Mailbox(X)) + 1
            /\ SubSeq(box, 1, Len(Mailbox(X))) = Mailbox(X)
            /\ box[Len(box)].from_agent = Coordinator
            /\ box[Len(box)].to_agent = X
            /\ box[Len(box)].content.task = tool'.task
            /\ X \in DOMAIN states'
            /\ heap'[states'[X]].status = "working"
            /\ heap'[states'[X]].current_task = tool'.task
            /\ \A o \in AllNames \ {X} : SameState(o) /\ MailboxAfter(o) = Mailbox(o)

\* C15: delegate_task(X, task) for an X registered with the coordinator
\* appends to X's mailbox one message, from the coordinator, whose
\* content.task is task, leaves X with status "working" and current_task
\* task, and changes the state and the mailbox of no other agent.
C15_DelegateEffect == [][C15_Step]_vars

\* A task was delegated to one agent while the other had a message waiting
\* and a status of its own.
C15_Witness ==
    /\ tool.op = "delegate_task"
    /\ tool.agent \in available_agents
    /\ heap[states[tool.agent]].status = "working"
    /\ heap[states[tool.agent]].current_task = "find X"
    /\ Len(Mailbox(tool.agent)) = 1
    /\ \E o \in AgentNames \ {tool.agent} :
        /\ Len(Mailbox(o)) = 1
        /\ o \in DOMAIN states
        /\ heap[states[o]].status = "completed"

\* C16: a coordinator tool given a name that is not registered with the
\* coordinator returns a JSON object with the key "error".
C16_UnknownAgentErrorPayload ==
    (/\ tool.op \in {"delegate_task", "get_agent_status", "get_agent_results",
                     "synthesize_results"}
     /\ ~tool.known) =>
        (tool.result.json /\ "error" \in tool.result.keys)

C17_Step ==
    tool'.op = "generate_code" =>
        IF Lower(tool'.language) \in SupportedLanguages
        THEN "error" \notin tool'.result.keys
        ELSE /\ tool'.result.json
             /\ tool'.result.keys = {"error"}
             /\ SameStateManager
             /\ heap' = heap

\* C17: generate_code with a language whose lower-case form is not a
\* supported language returns a JSON object with the key "error" and leaves
\* every AgentState, result list and data as they were; with a supported
\* language, in whatever case, it returns no error.
C17_UnsupportedLanguageRefused == [][C17_Step]_vars

\* "Rust" was refused after "GO" had been generated: the one result and
\* last_generated_language still are those of "GO".
C17_Witness ==
    /\ tool.op = "generate_code"
    /\ tool.language = "Rust"
    /\ "error" \in tool.result.keys
    /\ CodeGen \in DOMAIN states
    /\ Len(heap[states[CodeGen]].results) = 1
    /\ heap[states[CodeGen]].data["last_generated_language"] = "GO"

C18_Step ==
    tool'.op = "register_agent" =>
        LET a == tool'.agent IN
            /\ a \in DOMAIN states'
            /\ heap'[states'[a]] = StateBefore(a)
            /\ \A o \in AllNames \ {a} : SameState(o)
            /\ \A o \in AllNames : MailboxAfter(o) = Mailbox(o)
            /\ global_context' = global_context

\* C18: register_agent(name) leaves name with the AgentState it had, or, if it
\* had none, with a new one of status idle, no current_task, empty data and
\* empty results; it changes no other agent's state.
C18_RegisterIdempotent == [][C18_Step]_vars

\* An agent that was working on a task with one result was registered again
\* and kept all three.
C18_Witness ==
    /\ tool.op = "register_agent"
    /\ tool.agent \in DOMAIN states
    /\ heap[states[tool.agent]].status = "working"
    /\ heap[states[tool.agent]].current_task = "find X"
    /\ Len(heap[states[tool.agent]].results) = 1

C19_Step ==
    tool'.op = "update_status" =>
        LET a == tool'.agent
            old == StateBefore(a)
            new == heap'[states'[a]]
        IN  /\ new.status = tool'.status
            /\ new.current_task =
                   (IF tool'.task # None THEN tool'.task ELSE old.current_task)
            /\ new.data = old.data
            /\ new.results = old.results
            /\ new.name = old.name
            /\ \A o \in AllNames \ {a} : SameState(o)
            /\ \A o \in AllNames : MailboxAfter(o) = Mailbox(o)
            /\ global_context' = global_context

\* C19: update_status(agent, status, task) leaves the agent with that status,
\* with current_task task if one was given and the current_task it had if
\* not, and with its data and results; it changes no mailbox, not the global
\* context, and no other agent.
C19_UpdateStatusFrame == [][C19_Step]_vars

\* A status update without a task kept the task the agent was working on.
C19_Witness ==
    /\ tool.op = "update_status"
    /\ tool.task = None
    /\ heap[states[tool.agent]].status = "completed"
    /\ heap[states[tool.agent]].current_task = "find X"

C20_Step ==
    tool'.op = "get_messages" =>
        LET B == tool'.agent IN
            /\ tool'.result = Pending(B)
            /\ \A i \in 1..Len(Mailbox(B)) : Mailbox(B)[i].to_agent = B
            /\ MailboxAfter(B) = IF tool'.clear THEN <<>> ELSE Mailbox(B)
            /\ \A o \in AllNames \ {B} : MailboxAfter(o) = Mailbox(o)
            /\ \A o \in AllNames : SameState(o)

\* C20: get_messages(B) returns the messages sent to B and not yet cleared, in
\* the order they were sent, each with its sender and content; with
\* clear=False it leaves B's mailbox as it was and with clear=True empty; it
\* changes no other mailbox.
C20_MessagesInOrder == [][C20_Step]_vars

\* Two messages were read in the order they were sent and left in place.
C20_Witness ==
    /\ tool.op = "get_messages"
    /\ ~tool.clear
    /\ Len(tool.result) = 2
    /\ tool.result[1].content = "m2"
    /\ tool.result[2].content = "m1"
    /\ tool.result[1].from = "research_agent"
    /\ Len(Mailbox(tool.agent)) = 2

\* A StateManager on which the agents were registered, a message sent and a
\* context value set, then threads that reset it, read it and write to it.
InitReset ==
    /\ heap = <<AgentState("research_agent"), AgentState("code_agent")>>
    /\ states = [a \in AgentNames |-> IF a = "research_agent" THEN 1 ELSE 2]
    /\ seen = [a \in AgentNames |-> {<<"idle", None, 0>>}]
    /\ messages = Sent(EmptyMap, Coordinator, "research_agent", <<0, 1>>)
    /\ global_context = Put(EmptyMap, "topic", <<0, 2>>)
    /\ available_agents = {}
    /\ held = [t \in Threads |-> 0]
    /\ InitThreads
    /\ added = [a \in AgentNames |-> {}]
    /\ sentLog = {}
    /\ returnedLog = <<>>
    /\ report = <<>>
    /\ HandlerUnused
    /\ LimiterUnused
    /\ ToolsUnused
    /\ WrappersUnused

NextReset ==
    \E t \in Threads :
        \/ CallReset(t)
        \/ CallGetAllAgentStates(t)
        \/ CallGetGlobalContext(t, "topic")
        \/ CallSetGlobalContext(t, "deadline")
        \/ CallGetMessages(t, "research_agent", FALSE)
        \/ CallSendMessage(t, Coordinator, "research_agent")
        \/ Reset(t)
        \/ GetAllAgentStates(t)
        \/ GetGlobalContext(t)
        \/ SetGlobalContext(t)
        \/ GM_Enter(t) \/ GM_Copy(t) \/ GM_Return(t)
        \/ SendMessage(t)

SpecReset == InitReset /\ [][NextReset]_vars

\* thread t is inside reset, between its first clear and its last
MidReset(t) == pc[t] \in {"rs_messages", "rs_context"}

\* thread u is at a statement inside a method of the StateManager (past the
\* call itself and the wait for the lock of its outermost with block)
InsideStateManager(u) ==
    pc[u] \notin {"idle", "rs_enter", "gaa_enter", "ggc_enter", "sgc_enter",
                  "gm_enter", "sm_enter", "ar_enter", "us_enter",
                  "dt_check", "gs_check", "gs_status", "gs_task", "gs_count"}

C21_Step ==
    /\ \A t \in Threads :
        (pc[t] = "rs_context" /\ pc'[t] = "idle") =>
            /\ states' = EmptyMap
            /\ \A x \in AgentNames : MailboxAfter(x) = <<>>
            /\ \A k \in ContextKeys : DictGet(global_context', k) = None
    /\ \A t \in Threads :
        MidReset(t) =>
            \A u \in Threads \ {t} :
                /\ ~InsideStateManager(u)
                /\ ~InsideStateManager(u)'
                /\ loc'[u] = loc[u]

\* C21: when reset returns, no agent is registered, every mailbox is empty
\* and no context key has a value; and while a thread is between reset's
\* first clear and its last, no other thread is at, or takes, a step inside
\* a StateManager method, or receives a value from one.
C21_ResetAtomic == [][C21_Step]_vars

\* A reset has cleared the states and the mailboxes but not yet the context,
\* which has a value, while another thread waits to copy the states.
C21_Witness ==
    \E t \in Threads, u \in Threads :
        /\ t # u
        /\ pc[t] = "rs_context"
        /\ states = EmptyMap
        /\ global_context # EmptyMap
        /\ pc[u] = "gaa_enter"

\* A StateManager with one agent registered, then threads that copy the
\* states, register another agent, reset, and update the first agent.
InitCopy ==
    /\ heap = <<AgentState("research_agent")>>
    /\ states = [a \in {"research_agent"} |-> 1]
    /\ seen = [a \in AgentNames |->
                  IF a = "research_agent" THEN {<<"idle", None, 0>>} ELSE {}]
    /\ messages = EmptyMap
    /\ global_context = EmptyMap
    /\ available_agents = {}
    /\ held = [t \in Threads |-> 0]
    /\ InitThreads
    /\ added = [a \in AgentNames |-> {}]
    /\ sentLog = {}
    /\ returnedLog = <<>>
    /\ report = <<>>
    /\ HandlerUnused
    /\ LimiterUnused
    /\ ToolsUnused
    /\ WrappersUnused

NextCopy ==
    \E t \in Threads :
        \/ CallGetAllAgentStates(t)
        \/ CallRegisterAgent(t, "code_agent")
        \/ CallReset(t)
        \/ CallUpdateStatus(t, "research_agent", "completed", None)
        \/ CallAddResult(t, "research_agent")
        \/ GetAllAgentStates(t)
        \/ Reset(t)
        \/ UpdateStatus(t)
        \/ AddResult(t)
        \/ GetAgentState(t)

SpecCopy == InitCopy /\ [][NextCopy]_vars

\* the names in the mapping thread t holds are, after the step, those before,
\* unless the step is t's own get_all_agent_states returning a new mapping
NamesKept(t) ==
    pc[t] # "gaa_copy" => DOMAIN Through(loc[t].copy)' = DOMAIN Through(loc[t].copy)

\* the step is thread u's update_status returning
UpdateReturns(u) == pc[u] = "us_task" /\ pc'[u] = "idle"

\* the step is thread u's add_result returning
AddReturns(u) == pc[u] = "ar_append" /\ pc'[u] = "idle"

\* after the step, the object that the mapping of thread t holds under a
\* shows what the returning call of thread u did
Shown(t, u, a) ==
    LET o == heap'[Through(loc[t].copy)'[a]] IN
        /\ UpdateReturns(u) => o.status = call[u].status
        /\ AddReturns(u) => call[u].x \in Range(o.results)

C22_OriginalStep ==
    \A t \in Threads :
        /\ NamesKept(t)
        /\ \A u \in Threads :
            (UpdateReturns(u) \/ AddReturns(u)) =>
                (call[u].agent \in DOMAIN Through(loc[t].copy)'
                    => Shown(t, u, call[u].agent))

\* C22 as stated: no later call changes the names in a mapping that
\* get_all_agent_states returned, and every later update_status or add_result
\* on an agent named in it shows in the object the mapping holds for it.
C22_LaterUpdatesShow == [][C22_OriginalStep]_vars

C22_Step ==
    \A t \in Threads :
        /\ NamesKept(t)
        /\ \A u \in Threads :
            (UpdateReturns(u) \/ AddReturns(u)) =>
                LET a == call[u].agent
                    held_by_t == Through(loc[t].copy)'
                IN  (/\ a \in DOMAIN held_by_t
                     /\ a \in DOMAIN states
                     /\ states[a] = held_by_t[a])
                        => Shown(t, u, a)

\* C22 amended: no later call changes the names in a mapping that
\* get_all_agent_states returned, and a later update_status or add_result on
\* an agent named in it shows in the object the mapping holds for it as long
\* as no reset has removed that object from the StateManager since.
C22_ShallowCopy == [][C22_Step]_vars

\* A thread holds a mapping with one name while the StateManager has two,
\* and the object under that name shows a status set after the copy.
C22_Witness ==
    \E t \in Threads :
        /\ DOMAIN loc[t].copy.names = {"research_agent"}
        /\ DOMAIN states = AgentNames
        /\ states["research_agent"] = loc[t].copy.names["research_agent"]
        /\ heap[loc[t].copy.names["research_agent"]].status = "completed"

\* A function decorated with retry_with_backoff, called from one thread, one
\* call after the other; the function returns or raises whenever it is
\* invoked, and the thread keeps running.
InitRetry ==
    /\ StateManagerUnused
    /\ HandlerUnused
    /\ LimiterUnused

NextRetry ==
    \/ \E n \in 0..MaxAttempts, j \in BOOLEAN, on_retry \in BOOLEAN,
          classes \in {Exceptions, {"ValueError"}} :
            RW_Call(RetryConfig(n, j, classes), on_retry)
    \/ RW_Step

SpecRetry == InitRetry /\ [][NextRetry]_vars /\ WF_vars(RW_Step)

\* the invocations of func among the events so far
Invocations == {i \in 1..Len(wrapper.trace) : wrapper.trace[i].ev = "func"}

\* the wrapper's run has ended
RetryDone == wrapper.kind = "retry" /\ wrapper.pc = "done"

\* event i is a sleep between two attempts: it follows the failure of one
\* invocation (and the on_retry call, if there is a callback) and the next
\* invocation follows it
SleepBetween(i) ==
    LET tr == wrapper.trace
        f == IF wrapper.on_retry THEN i - 2 ELSE i - 1
    IN  /\ f >= 1
        /\ tr[f].ev = "func"
        /\ tr[f].what \in wrapper.config.retry_on_exceptions
        /\ wrapper.on_retry =>
               /\ tr[i - 1].ev = "on_retry"
               /\ tr[i - 1].attempt = tr[f].attempt
               /\ tr[i - 1].what = tr[f].what
        /\ RetryDone => i < Len(tr)
        /\ i < Len(tr) => tr[i + 1].ev = "func"

C23_Safe ==
    wrapper.kind = "retry" =>
        LET tr == wrapper.trace
            config == wrapper.config
        IN  /\ wrapper.calls = Cardinality(Invocations)
            /\ wrapper.calls <= config.max_attempts
            /\ \A i \in Invocations :
                   tr[i].what \notin config.retry_on_exceptions => i = Len(tr)
            /\ \A i \in 1..Len(tr) : tr[i].ev = "sleep" => SleepBetween(i)
            /\ \A i \in 1..Len(tr) :
                   (tr[i].ev = "on_retry" /\ i < Len(tr)) => tr[i + 1].ev = "sleep"
            /\ (RetryDone /\ Len(tr) = 0) =>
                   /\ config.max_attempts = 0
                   /\ wrapper.outcome = "raised"
            /\ (RetryDone /\ Len(tr) > 0) =>
                   LET final == tr[Len(tr)] IN
                       /\ final.ev = "func"
                       /\ final.what = None => wrapper.outcome = "returned"
                       /\ final.what \in Exceptions =>
                              /\ wrapper.outcome = "raised"
                              /\ wrapper.exception = <<final.what, final.attempt>>
                       /\ final.what \in config.retry_on_exceptions =>
                              wrapper.calls = config.max_attempts
                       /\ (Len(tr) = 1 /\ final.what \in Exceptions
                               /\ final.what \notin config.retry_on_exceptions) =>
                              wrapper.calls = 1

AttemptNumbers ==
    (0..(MaxAttempts + 5))
        \cup {FloatMaxExponent \div 2, FloatMaxExponent - 1, FloatMaxExponent}

BackoffConfigs ==
    [max_attempts : {3}, initial_delay : {2, 4}, max_delay : {20, 120},
     exponential_base : {1, 2, 4}, jitter : BOOLEAN,
     retry_on_exceptions : {Exceptions}]

InitBackoff ==
    /\ StateManagerUnused
    /\ HandlerUnused
    /\ LimiterUnused

NextBackoff ==
    \E attempt \in AttemptNumbers, config \in BackoffConfigs,
       r \in 0..(120 \div 2) :
        CalculateBackoffCall(attempt, config, r)

SpecBackoff == InitBackoff /\ [][NextBackoff]_vars

\* RetryConfig(initial_delay=1, exponential_base=2, max_delay=10), no jitter
ClaimedConfig ==
    [max_attempts |-> 3, initial_delay |-> 2, max_delay |-> 20,
     exponential_base |-> 2, jitter |-> FALSE, retry_on_exceptions |-> Exceptions]

\* C24: calculate_backoff_delay returns a delay; without jitter it is
\* min(initial_delay * exponential_base^attempt, max_delay), here for the
\* attempts where that product is small enough to write down; with
\* initial_delay=1, exponential_base=2, max_delay=10 it is 1, 2, 4, 8 for the
\* attempts 0..3 and 10 from attempt 4 on; with jitter it lies between half
\* of that value and that value.
C24_BackoffClipped ==
    wrapper.kind = "calculate_backoff_delay" =>
        LET a == wrapper.attempt
            c == wrapper.config
        IN  /\ wrapper.outcome = "returned"
            /\ (~c.jitter /\ a <= 5) =>
                   wrapper.delay = Min(c.initial_delay * Pow(c.exponential_base, a),
                                       c.max_delay)
            /\ c = ClaimedConfig =>
                   wrapper.delay = (IF a >= 4 THEN 20
                                    ELSE <<2, 4, 8, 16>>[a + 1])
            /\ c.jitter =>
                   LET whole == CalculateBackoffDelay(a, [c EXCEPT !.jitter = FALSE], 0)
                   IN  /\ 2 * wrapper.delay >= whole
                       /\ wrapper.delay <= whole

\* One ErrorRecoveryHandler and one thread that calls safe_execute, with and
\* without the handler and a context, and handle_error itself.
NextSafe ==
    \/ \E x \in Raised \cup {None}, recoverable \in BOOLEAN,
          error_handler \in BOOLEAN, context \in BOOLEAN,
          op \in {"op", None}, named \in BOOLEAN :
            SafeExecute(x, recoverable, error_handler, context, op, named)
    \/ HandleError("op", TRUE, "fallback")

SpecSafe == InitBreaker /\ [][NextSafe]_vars

\* the step is a safe_execute call
SafeExecuteStep == wrapper' # wrapper /\ wrapper'.kind = "safe_execute"

C25_Step ==
    SafeExecuteStep =>
        LET w == wrapper' IN
            /\ w.outcome = "returned"
            /\ w.raised = None =>
                   /\ w.result = "func_result"
                   /\ ~w.has_error
                   /\ error_history' = error_history
            /\ w.raised # None =>
                   /\ w.result = "default"
                   /\ w.has_error
                   /\ w.error.type \in {"AgentError", "ToolExecutionError"}
                   /\ IF w.raised \in {"AgentError", "ToolExecutionError"}
                      THEN w.error.raised_by_func /\ w.error.type = w.raised
                      ELSE w.error.original_exception = w.raised
                   /\ (w.error_handler /\ w.context) =>
                          /\ Len(error_history') = Len(error_history) + 1
                          /\ SubSeq(error_history', 1, Len(error_history))
                                 = error_history

\* C25: a safe_execute call returns; (result, no error) when func returned,
\* with error_history as it was; (default, an AgentError) when func raised:
\* the AgentError func raised, or one whose original_exception is what func
\* raised; and when a handler and a context were given, error_history has
\* exactly one record more.
C25_SafeExecutePair == [][C25_Step]_vars

\* A function decorated with validated_tool, called from one thread, one call
\* after the other, while time passes.
ToolConfigs ==
    {ToolConfig(i, o, r, s) : i \in BOOLEAN, o \in BOOLEAN, r \in BOOLEAN,
                              s \in {0, 30}}

NextValidated ==
    \/ LimiterTick
    \/ \E config \in ToolConfigs, wait \in BOOLEAN :
        VT_Decorate(config, 1, 1, wait)
    \/ \E valid \in BOOLEAN : VT_Call(valid)
    \/ VT_Step

SpecValidated == InitRetry /\ [][NextValidated]_vars

\* the stages in the order the claim gives them
StageOrder ==
    <<"validate_input", "acquire", "alarm", "func", "alarm", "validate_output">>

\* tr is made of stages of StageOrder from position k on, in that order
RECURSIVE InOrderFrom(_, _)
InOrderFrom(tr, k) ==
    \/ tr = <<>>
    \/ /\ k <= Len(StageOrder)
       /\ IF Head(tr).stage = StageOrder[k]
          THEN InOrderFrom(Tail(tr), k + 1)
          ELSE InOrderFrom(tr, k + 1)

\* the stages a call goes through when nothing stops it
StagesOf(config) ==
    Wrap("validate_input", config.input_constraints,
        Wrap("acquire", config.rate_limit_config,
            Wrap("alarm", config.timeout_seconds # 0,
                Wrap("func", TRUE,
                    Wrap("alarm", config.timeout_seconds # 0,
                        Wrap("validate_output", config.output_constraints, <<>>))))))

StagesDone == [i \in 1..Len(wrapper.trace) |-> wrapper.trace[i].stage]

Rejected(stage) ==
    /\ wrapper.kind = "validated_tool"
    /\ wrapper.outcome = "raised"
    /\ wrapper.trace # <<>>
    /\ wrapper.trace[Len(wrapper.trace)] = Did(stage, "rejected")

\* C26: a call of a validated_tool function goes through its stages in one
\* order: input validation, then the rate limiter, then the function under
\* its timeout, then output validation; a call that returns went through
\* every stage asked for.  A call rejected by input validation leaves the
\* limiter as it was and does not invoke the function; a call rejected by
\* output validation has invoked the function and, when a rate limit is
\* asked for, has taken a token before.
C26_StageOrder ==
    wrapper.kind = "validated_tool" =>
        /\ InOrderFrom(wrapper.trace, 1)
        /\ wrapper.outcome = "returned" => StagesDone = StagesOf(wrapper.config)
        /\ Rejected("validate_input") =>
            /\ limiter = wrapper.before
            /\ StagesDone = <<"validate_input">>
        /\ Rejected("validate_output") =>
            /\ Count(StagesDone, "func") = 1
            /\ wrapper.config.rate_limit_config =>
                /\ Count(StagesDone, "acquire") = 1
                /\ \/ /\ Did("acquire", "returned") \in Range(wrapper.trace)
                      /\ wrapper.tokens[2] = wrapper.tokens[1] - Period
                   \/ /\ Did("acquire", "waited") \in Range(wrapper.trace)
                      /\ wrapper.tokens[2] = 0

\* both rejections happen with a rate limit asked for, the output one after
\* a token was taken
C26_Witness ==
    /\ Rejected("validate_output")
    /\ wrapper.config.rate_limit_config
    /\ wrapper.config.input_constraints
    /\ wrapper.config.timeout_seconds # 0
    /\ wrapper.calls > 1
    /\ limiter.tokens < wrapper.before.tokens + (now - wrapper.before.last_update) * limiter.rate

\* The coordinator and the three specialized agents on one StateManager,
\* their tools called one after the other.
InitSpecialized ==
    /\ available_agents = Specialized
    /\ heap = <<AgentState(Research), AgentState(CodeGen), AgentState(DataAnalysis)>>
    /\ states = [a \in Specialized |->
                    CASE a = Research -> 1 [] a = CodeGen -> 2 [] OTHER -> 3]
    /\ messages = EmptyMap
    /\ global_context = EmptyMap
    /\ held = [t \in Threads |-> 0]
    /\ InitThreads
    /\ InitHistory
    /\ HandlerUnused
    /\ LimiterUnused
    /\ ToolsUnused
    /\ WrappersUnused

NextSpecialized ==
    \/ \E a \in Specialized :
        \/ DelegateTaskCall(a, "find X")
        \/ UpdateStatusCall(a, "completed", None)
    \/ ResetCall
    \/ \E tl \in SpecializedTools : SpecializedToolCall(tl)
    \/ \E language \in {"python", "rust"} : GenerateCodeCall(language)

SpecSpecialized == InitSpecialized /\ [][NextSpecialized]_vars

\* the names of the specialized agents' tools
SpecializedOps == {tl.name : tl \in SpecializedTools} \cup {"generate_code"}

\* the step is a call of a specialized agent's tool
ToolStep == ntools' = ntools + 1 /\ tool'.op \in SpecializedOps

\* a is registered after the step as before, with the same status and task
SameStatus(a) ==
    /\ a \in DOMAIN states'
    /\ heap'[states'[a]].status = heap[states[a]].status
    /\ heap'[states'[a]].current_task = heap[states[a]].current_task

C27_Step ==
    /\ ToolStep =>
        \A a \in Specialized :
            /\ a \in DOMAIN states => SameStatus(a)
            /\ a # tool'.agent => SameState(a)
            /\ (a \notin DOMAIN states /\ a \in DOMAIN states') =>
                /\ heap'[states'[a]].status = "idle"
                /\ heap'[states'[a]].current_task = None
    /\ \A a \in Specialized :
        (/\ a \in DOMAIN states
         /\ heap[states[a]].status = "working"
         /\ ~SameStatus(a)) =>
            /\ ntools' = ntools + 1
            /\ tool'.op \in {"delegate_task", "update_status", "reset"}

\* C27: a tool of the research, code-generation or data-analysis agent leaves
\* the status and current_task of every registered agent as they were and
\* touches no AgentState but its own agent's; an agent that is "working"
\* stops being so, or gets another task, only in a delegate_task, an
\* update_status or a reset.
C27_ToolsKeepStatus == [][C27_Step]_vars

\* A delegated agent has run two of its tools and is still working on the
\* delegated task.
C27_Witness ==
    /\ tool.op = "gather_information"
    /\ heap[states[Research]].status = "working"
    /\ heap[states[Research]].current_task = "find X"
    /\ Len(heap[states[Research]].results) = 2
    /\ DOMAIN heap[states[Research]].data =
           {"last_search_query", "current_research_topic"}

\* A new StateManager, its methods called one after the other; set is called
\* for names that have an AgentState, so that an AgentState is created by
\* get or by get_agent_state only.
NextReads ==
    \/ \E a \in AgentNames :
        \/ \E key \in ContextKeys : GetCall(a, key)
        \/ GetAgentStateCall(a)
        \/ SendMessageCall(Coordinator, a, "m1")
        \/ \E clear \in BOOLEAN : GetMessagesCall(a, clear)
    \/ \E a \in AgentNames : SetKnownCall(a, "topic", "X")
    \/ GetAllAgentStatesCall
    \/ ResetCall

SpecReads == InitRetry /\ [][NextReads]_vars

\* C28 as claimed: a name for which get or get_agent_state created an
\* AgentState is in the result of every later get_all_agent_states().
C28_CreatedNamesStay ==
    tool.op = "get_all_agent_states" =>
        \A i \in DOMAIN heap : heap[i].name \in DOMAIN tool.result.names

\* the step is a call of op
Called(op) == ntools' = ntools + 1 /\ tool'.op = op

C28_Step ==
    /\ (Called("get") \/ Called("get_agent_state")) =>
        LET a == tool'.agent IN
            /\ a \in DOMAIN states'
            /\ a \notin DOMAIN states => heap'[states'[a]] = AgentState(a)
            /\ \A o \in AgentNames : o \in DOMAIN states => SameState(o)
            /\ DOMAIN states' = DOMAIN states \cup {a}
    /\ Called("get") =>
        LET data == StateBefore(tool'.agent).data IN
            tool'.result = IF tool'.content \in DOMAIN data
                           THEN data[tool'.content] ELSE None
    /\ \A a \in AgentNames, key \in ContextKeys :
        (/\ a \in DOMAIN states'
         /\ key \in DOMAIN heap'[states'[a]].data
         /\ key \notin DOMAIN StateBefore(a).data) =>
            Called("set") /\ tool'.agent = a /\ tool'.content = key
    /\ Called("get_all_agent_states") => DOMAIN tool'.result.names = DOMAIN states
    /\ ~Called("reset") => DOMAIN states \subseteq DOMAIN states'
    /\ (Called("send_message") \/ Called("get_messages")) =>
        /\ states' = states
        /\ heap' = heap

\* C28, amended: get(agent, key) and get_agent_state(agent) called with a
\* name that has no AgentState create an idle one for it and change no other;
\* the name stays, and is in every get_all_agent_states() result, until the
\* next reset.  get returns the value last set for the key, and None for a
\* key that only a set can put there and none did; send_message and
\* get_messages create no AgentState.
C28_ReadsRegister == [][C28_Step]_vars

\* A get of a key never set returned None and created the AgentState that a
\* later get_all_agent_states() shows, after messages went to and from
\* another name that has none.
C28_Witness ==
    /\ tool.op = "get_all_agent_states"
    /\ DOMAIN tool.result.names = {"research_agent"}
    /\ heap = <<AgentState("research_agent")>>
    /\ "code_agent" \in DOMAIN messages

\* Threads that delegate tasks to the one registered agent, or to one that is
\* not registered, while others ask for the agent's status or set the status
\* of the other.
InitDelegate ==
    /\ available_agents = {"research_agent"}
    /\ heap = <<AgentState("research_agent")>>
    /\ states = [a \in {"research_agent"} |-> 1]
    /\ seen = [a \in AgentNames |->
                  IF a = "research_agent" THEN {<<"idle", None, 0>>} ELSE {}]
    /\ messages = EmptyMap
    /\ global_context = EmptyMap
    /\ held = [t \in Threads |-> 0]
    /\ InitThreads
    /\ added = [a \in AgentNames |-> {}]
    /\ sentLog = {}
    /\ returnedLog = <<>>
    /\ report = <<>>
    /\ HandlerUnused
    /\ LimiterUnused
    /\ ToolsUnused
    /\ WrappersUnused

NextDelegate ==
    \E t \in Threads :
        \/ \E a \in AgentNames, task \in Tasks : CallDelegateTask(t, a, task)
        \/ CallGetAgentStatus(t, "research_agent")
        \/ CallUpdateStatus(t, "code_agent", "completed", None)
        \/ DT_Check(t)
        \/ SendMessage(t)
        \/ UpdateStatus(t)
        \/ GetAgentState(t)
        \/ GetAgentStatus(t)

SpecDelegate == InitDelegate /\ [][NextDelegate]_vars

\* a delegate_task(X, task) call has appended its message to X's mailbox
Appended(X, task) == [to |-> X, content |-> Delegation(task)] \in sentLog

\* C29: delegate_task appends its message in one critical section and sets
\* the status in a later one, with the lock free in between; an agent is
\* "working" only after a delegation message was appended to its mailbox, and
\* its current_task is a task only after the message for that task was.
C29_MessageBeforeStatus ==
    /\ \A t \in Threads :
        (call[t].op = "delegate_task" /\ pc[t] \in {"sm_enter", "us_enter"}) =>
            held[t] = 0
    /\ \A t \in Threads :
        (call[t].op = "delegate_task" /\ pc[t] \in {"us_status", "us_task"}) =>
            Appended(call[t].agent, call[t].task)
    /\ \A X \in DOMAIN states :
        /\ heap[states[X]].status = "working" =>
            \E task \in Tasks : Appended(X, task)
        /\ heap[states[X]].current_task # None =>
            Appended(X, heap[states[X]].current_task)

\* The first delegation to an agent has left its message in the mailbox and
\* released the lock; the agent is still idle, and another thread is inside
\* get_agent_status and reads that.
C29_Witness ==
    \E t, u \in Threads :
        /\ call[t].op = "delegate_task"
        /\ pc[t] = "us_enter"
        /\ Len(Mailbox(call[t].agent)) = 1
        /\ Mailbox(call[t].agent)[1].content = Delegation(call[t].task)
        /\ heap[states[call[t].agent]].status = "idle"
        /\ call[u].op = "get_agent_status"
        /\ call[u].agent = call[t].agent
        /\ pc[u] = "gs_task"
        /\ loc[u].status = "idle"

\* Threads that call acquire on one limiter built with wait_on_limit=True, a
\* token bucket or a sliding window.  Time passes up to MaxTime, and beyond it
\* while a thread sleeps in time.sleep(wait_time).
InitWaiting ==
    /\ StateManagerUnused
    /\ HandlerUnused
    /\ \/ \E rate \in 1..MaxRate, burst \in 1..MaxBurst :
            limiter = RateLimiter(rate, burst, TRUE, 0)
       \/ \E n \in 1..MaxRate : limiter = SlidingWindowRateLimiter(n, TRUE)
    /\ returned = 0
    /\ raised = 0
    /\ acqLog = <<>>

Sleeping(t) == pc[t] \in {"rl_sleep", "sw_sleep"}

WaitTick ==
    /\ now < MaxTime \/ \E t \in Threads : Sleeping(t) /\ now < loc[t].wake
    /\ now' = now + 1
    /\ UNCHANGED <<thVars, rlVars, notRL>>

Wake(t) == AcquireWake(t) \/ WindowAcquireWake(t)

NextWaiting ==
    \/ WaitTick
    \/ \E t \in Threads :
        \/ Acquire(t, 1)
        \/ AcquireWake(t)
        \/ WindowAcquire(t)
        \/ WindowAcquireWake(t)

SpecWaiting ==
    /\ InitWaiting
    /\ [][NextWaiting]_vars
    /\ WF_vars(WaitTick)
    /\ \A t \in Threads : WF_vars(Wake(t))

\* the thread that sleeps holds the lock, and no other does
C30_LockHeld ==
    /\ \A t \in Threads : Sleeping(t) <=> limiter.lock = t
    /\ \A t, u \in Threads : (Sleeping(t) /\ Sleeping(u)) => t = u

\* while t sleeps, a step is the end of t's sleep or leaves the limiter alone
C30_Step ==
    \A t \in Threads :
        Sleeping(t) =>
            \/ /\ pc'[t] = "idle"
               /\ now >= loc[t].wake
               /\ returned' = returned + 1
               /\ limiter'.lock = 0
            \/ /\ UNCHANGED <<limiter, returned, raised, acqLog>>
               /\ pc'[t] = pc[t]

\* C30: a limiter with wait_on_limit=True keeps its lock while a thread
\* sleeps in acquire: no other acquire reads or changes the limiter until
\* that thread's acquire has returned, so that the callers are admitted one
\* after the other; and a thread that sleeps in acquire returns from it.
C30_LockHeldWhileWaiting ==
    /\ []C30_LockHeld
    /\ [][C30_Step]_vars
    /\ \A t \in Threads : Sleeping(t) ~> (pc[t] = "idle" /\ limiter.lock # t)

\* One thread slept in acquire and returned, and the next is asleep in its
\* own acquire, admitted only after the first had returned.
C30_Witness ==
    /\ returned >= 2
    /\ \E t \in Threads : Sleeping(t) /\ now < loc[t].wake
    /\ limiter.kind = "RateLimiter" =>
        \E i \in DOMAIN acqLog : acqLog[i].outcome = "waited"

====
